---- MODULE Spec2Model ----
(***************************************************************************)
(* A model of the browser module runtime ($_mod) of                        *)
(* docs/static/hello-e154ee25.js: path resolution, the module instance     *)
(* cache, factory execution (with re-entrant calls into the runtime), the  *)
(* run queue and the ready / pending gate; and of the component update     *)
(* scheduler the bundle carries (State, Component, update-manager):        *)
(* setState, the batch stack, the unbatched queue and the deferred flush.  *)
(*                                                                         *)
(* Strings are sequences of one-character strings, so that charAt,         *)
(* indexOf, substring, split and join are computed as the code computes    *)
(* them.  Indices are 0-based as in the source.                            *)
(***************************************************************************)
EXTENDS Integers, Sequences, FiniteSets, TLC

(***************************************************************************)
(* String primitives                                                       *)
(***************************************************************************)

\* the value of a lookup that finds nothing, where a string is expected
Undefined == <<"undefined">>

\* String.prototype.charAt: "" when the index is out of range
CharAt(s, i) == IF i >= 0 /\ i < Len(s) THEN s[i + 1] ELSE ""

\* String.prototype.substring(a, b) for 0 <= a, b (clamped to the length)
Substring(s, a, b) ==
    LET lo == IF a > Len(s) THEN Len(s) ELSE a
        hi == IF b > Len(s) THEN Len(s) ELSE b
    IN  IF hi <= lo THEN <<>> ELSE SubSeq(s, lo + 1, hi)

\* String.prototype.indexOf(c, from): -1 when c does not occur at or after from
IndexOf(s, c, from) ==
    LET hits == {i \in 0..(Len(s) - 1) : i >= from /\ s[i + 1] = c}
    IN  IF hits = {} THEN -1 ELSE CHOOSE i \in hits : \A j \in hits : i <= j

\* String.prototype.lastIndexOf(c)
LastIndexOf(s, c) ==
    LET hits == {i \in 0..(Len(s) - 1) : s[i + 1] = c}
    IN  IF hits = {} THEN -1 ELSE CHOOSE i \in hits : \A j \in hits : i >= j

\* String.prototype.split('/'): the empty string splits into one empty part
RECURSIVE Split(_)
Split(s) ==
    LET i == IndexOf(s, "/", 0)
    IN  IF i = -1 THEN <<s>>
        ELSE <<Substring(s, 0, i)>> \o Split(Substring(s, i + 1, Len(s)))

\* Array.prototype.join('/')
RECURSIVE JoinParts(_)
JoinParts(parts) ==
    IF Len(parts) = 0 THEN <<>>
    ELSE IF Len(parts) = 1 THEN parts[1]
    ELSE parts[1] \o <<"/">> \o JoinParts(Tail(parts))

\* obj[key] on a plain object used as a map
Get(map, key) == IF key \in DOMAIN map THEN map[key] ELSE Undefined

\* obj[key] = value
Put(map, key, value) ==
    [k \in (DOMAIN map) \cup {key} |-> IF k = key THEN value ELSE map[k]]

\* the empty object {}
EmptyMap == [k \in {} |-> Undefined]

(***************************************************************************)
(* Path normalisation                                                      *)
(***************************************************************************)

\* the error `parts.length = len` raises for a negative len
RangeError == <<"RangeError">>

\* the for loop of normalizePathParts: parts is overwritten in place up to
\* the write position len; a write at a negative position sets a property
\* that is not an element of the array
RECURSIVE NormalizeLoop(_, _, _)
NormalizeLoop(parts, i, len) ==
    IF i > Len(parts) THEN [parts |-> parts, len |-> len]
    ELSE LET part == parts[i]
         IN  IF part = <<".">> THEN NormalizeLoop(parts, i + 1, len)
             ELSE IF part = <<".", ".">> THEN NormalizeLoop(parts, i + 1, len - 1)
             ELSE NormalizeLoop(
                    IF len >= 0 THEN [parts EXCEPT ![len + 1] = part] ELSE parts,
                    i + 1, len + 1)

normalizePathParts(parts0) ==
    LET r == NormalizeLoop(parts0, 1, 0)
        parts == r.parts
        len == r.len
        len2 == IF len > 2 /\ Len(parts[len]) = 0 THEN len - 1 ELSE len
    IN  IF len = 1 THEN <<"/">>
        ELSE IF len2 < 0 THEN RangeError
        ELSE JoinParts(SubSeq(parts, 1, len2))

\* a faulty variant: the target is joined to the directory `from` lies in
join_Dirname(from, target) ==
    LET targetParts == Split(target)
        fromParts == Split(Substring(from, 0, LastIndexOf(from, "/")))
    IN  normalizePathParts(fromParts \o targetParts)

join(from, target) ==
    LET targetParts == Split(target)
        fromParts == IF from = <<"/">> THEN <<<<>>>> ELSE Split(from)
    IN  normalizePathParts(fromParts \o targetParts)

\* null (here Undefined) when the path has no extension in its last segment
withoutExtension(path) ==
    LET lastDotPos == LastIndexOf(path, ".")
        lastSlashPos == LastIndexOf(path, "/")
    IN  IF lastDotPos = -1 \/ (lastSlashPos # -1 /\ lastSlashPos > lastDotPos)
        THEN Undefined
        ELSE Substring(path, 0, lastDotPos)

\* [1] is the package id, [2] the subpath
splitPackageIdAndSubpath(path0) ==
    LET path == Substring(path0, 1, Len(path0))
        slashPos0 == IndexOf(path, "/", 0)
        slashPos == IF CharAt(path, 1) = "@"
                    THEN IndexOf(path, "/", slashPos0 + 1)
                    ELSE slashPos0
        packageIdEnd == IF slashPos = -1 THEN Len(path) ELSE slashPos
    IN  <<Substring(path, 0, packageIdEnd), Substring(path, packageIdEnd, Len(path))>>

(***************************************************************************)
(* State                                                                   *)
(***************************************************************************)

VARIABLES
    definitions,              \* path -> "function" | "object" (a literal value)
    searchPaths,              \* sequence of prefixes
    _ready,                   \* the _ready flag
    runQueue,                 \* sequence of [path, options, ticket]
    instanceCache,            \* resolved path -> Module (index into modules)
    installed,                \* "<parentPath>/<packageName>" -> version
    builtins,                 \* name -> resolved path
    mains,                    \* directory -> relative path of its main file
    remapped,                 \* resolved path -> resolved path
    cacheByDirname,           \* dirname -> (target -> Module)
    loadedGlobalsByRealPath,  \* path -> Module
    pendingCount,
    modules,                  \* the Module objects created so far, in order
    globalVars,               \* the properties define() sets on the global object
    jobs,                     \* the handles pending() returned: TRUE once done() was called on it
    stack,                    \* the JavaScript call stack (factories and ready() drains in progress)
    exc,                      \* the error the code on top of the stack has just been thrown
    last,                     \* the most recent call into the runtime and its outcome
    factoryCalls,             \* history: path -> number of times its factory was invoked
    executed,                 \* history: tickets of run() entry points, in order of execution
    enqueued,                 \* history: tickets that run() called by the page put on the queue
    returned,                 \* history: path -> the [Module, exports value] pairs require returned for it
    resolution,               \* the latest resolve(target, from) call and its result, while the tables are as it saw them
    updatesScheduled,         \* update-manager: a deferred flush has been asked of nextTick
    batchStack,               \* update-manager: the active batches, each [aB_ |-> its pending components]
    unbatchedQueue,           \* update-manager: the components waiting for the deferred flush
    immediates,               \* nextTick: the number of callbacks it holds that have not run yet
    components,               \* the Component objects: their flags, their State and what the DOM shows
    frames,                   \* the calls of the update manager in progress, innermost last
    updateLog,                \* history of the scheduler: what was called, queued and updated
    componentLookup,          \* the global component lookup: the ids that have an entry
    emitter,                  \* the listeners ($e) of an event emitter of the page, by event type
    morph,                    \* morphdom: the children of a rendered parent, the keyed elements, and what the last pass did
    keySequence,              \* a KeySequence (_Q_) and the keys it was asked for and returned
    dispatch                  \* event-delegation: the event being dispatched and the handlers invoked for it

vars == <<definitions, searchPaths, _ready, runQueue, instanceCache, installed,
          builtins, mains, remapped, cacheByDirname, loadedGlobalsByRealPath,
          pendingCount, modules, globalVars, jobs, stack, exc, last,
          factoryCalls, executed, enqueued, returned, resolution,
          updatesScheduled, batchStack, unbatchedQueue, immediates,
          components, frames, updateLog, componentLookup, emitter,
          morph, keySequence, dispatch>>

\* the state of the DOM code, which the loader and the scheduler never touch
domVars == <<morph, keySequence, dispatch>>

\* the state of the component update scheduler, which the loader never touches
schedulerVars == <<updatesScheduled, batchStack, unbatchedQueue, immediates,
                   components, frames, updateLog, componentLookup, emitter>>

\* the whole state as one record, for the operators that compute a call's effect
S == [definitions |-> definitions, searchPaths |-> searchPaths, _ready |-> _ready,
      runQueue |-> runQueue, instanceCache |-> instanceCache,
      installed |-> installed, builtins |-> builtins, mains |-> mains,
      remapped |-> remapped, cacheByDirname |-> cacheByDirname,
      loadedGlobalsByRealPath |-> loadedGlobalsByRealPath,
      pendingCount |-> pendingCount, modules |-> modules,
      globalVars |-> globalVars, jobs |-> jobs, stack |-> stack, exc |-> exc,
      last |-> last, factoryCalls |-> factoryCalls, executed |-> executed,
      enqueued |-> enqueued, returned |-> returned]

\* no resolve call made since the tables last changed
NoResolution == [called |-> FALSE, op |-> "none", target |-> <<>>, from |-> <<>>,
                 found |-> FALSE, path |-> Undefined, subpath |-> <<>>,
                 err |-> "none"]

\* the state a call leaves behind, but for what it returned
CommitLoader(s) ==
    /\ definitions' = s.definitions
    /\ searchPaths' = s.searchPaths
    /\ _ready' = s._ready
    /\ runQueue' = s.runQueue
    /\ instanceCache' = s.instanceCache
    /\ installed' = s.installed
    /\ builtins' = s.builtins
    /\ mains' = s.mains
    /\ remapped' = s.remapped
    /\ cacheByDirname' = s.cacheByDirname
    /\ loadedGlobalsByRealPath' = s.loadedGlobalsByRealPath
    /\ pendingCount' = s.pendingCount
    /\ modules' = s.modules
    /\ globalVars' = s.globalVars
    /\ jobs' = s.jobs
    /\ stack' = s.stack
    /\ exc' = s.exc
    /\ last' = s.last
    /\ factoryCalls' = s.factoryCalls
    /\ executed' = s.executed
    /\ enqueued' = s.enqueued
    /\ returned' = s.returned
    /\ UNCHANGED schedulerVars
    /\ UNCHANGED domVars

Commit(s) ==
    /\ CommitLoader(s)
    /\ resolution' = NoResolution

(***************************************************************************)
(* Resolution                                                              *)
(***************************************************************************)

\* definitions[path]
GetDef(s, path) ==
    IF path \in DOMAIN s.definitions THEN s.definitions[path] ELSE "undefined"

\* the outcomes of resolve: [resolvedPath, factoryOrObject], undefined, or
\* the RangeError of normalizePathParts passing through
Resolved(path, def) == [found |-> TRUE, path |-> path, def |-> def, err |-> "none"]
NotResolved == [found |-> FALSE, path |-> Undefined, def |-> "undefined", err |-> "none"]
ResolveThrew == [found |-> FALSE, path |-> Undefined, def |-> "undefined", err |-> "RangeError"]

\* a faulty variant: the installed dependencies are looked up before the builtins
resolveInstalledModule_InstalledFirst(s, target0, from) ==
    LET \* target.slice(0, -1) when target ends with a slash
        Stripped == IF CharAt(target0, Len(target0) - 1) = "/"
                    THEN Substring(target0, 0, Len(target0) - 1)
                    ELSE target0
        \* if (targetPackageVersion) return '/' + name + '$' + version + subpath
        Versioned(targetPackageName, targetSubpath, targetPackageVersion, builtinPath) ==
            IF targetPackageVersion # Undefined /\ targetPackageVersion # <<>>
            THEN <<"/">> \o targetPackageName \o <<"$">> \o targetPackageVersion
                     \o targetSubpath
            ELSE IF builtinPath # Undefined /\ builtinPath # <<>> THEN builtinPath
            ELSE Undefined
        \* installed[fromPackageId + '/' + targetPackageName]
        AfterName(targetPackageName, targetSubpath, builtinPath) ==
            Versioned(targetPackageName, targetSubpath,
                      Get(s.installed, splitPackageIdAndSubpath(from)[1]
                                           \o <<"/">> \o targetPackageName), builtinPath)
        \* substring(0, -1) is the empty string, substring(-1) the whole string
        AfterScope(target, targetSlashPos0, targetSlashPos, builtinPath) ==
            AfterName(IF targetSlashPos0 < 0 THEN target
                      ELSE IF targetSlashPos < 0 THEN <<>>
                      ELSE Substring(target, 0, targetSlashPos),
                      IF targetSlashPos0 < 0 THEN <<>>
                      ELSE IF targetSlashPos < 0 THEN target
                      ELSE Substring(target, targetSlashPos, Len(target)), builtinPath)
        \* a scoped target ("@user/package/...") has a package name of two parts
        AfterSlash(target, targetSlashPos0, builtinPath) ==
            AfterScope(target, targetSlashPos0,
                       IF targetSlashPos0 >= 0 /\ CharAt(target, 0) = "@"
                       THEN IndexOf(target, "/", targetSlashPos0 + 1)
                       ELSE targetSlashPos0, builtinPath)
        AfterBuiltin(target, builtinPath) ==
            AfterSlash(target, IndexOf(target, "/", 0), builtinPath)
    IN  AfterBuiltin(Stripped, Get(s.builtins, Stripped))

\* builtins are looked up before the installed dependencies; each step of
\* the function is given the values the steps before it computed
resolveInstalledModule(s, target0, from) ==
    LET \* target.slice(0, -1) when target ends with a slash
        Stripped == IF CharAt(target0, Len(target0) - 1) = "/"
                    THEN Substring(target0, 0, Len(target0) - 1)
                    ELSE target0
        \* if (targetPackageVersion) return '/' + name + '$' + version + subpath
        Versioned(targetPackageName, targetSubpath, targetPackageVersion) ==
            IF targetPackageVersion # Undefined /\ targetPackageVersion # <<>>
            THEN <<"/">> \o targetPackageName \o <<"$">> \o targetPackageVersion
                     \o targetSubpath
            ELSE Undefined
        \* installed[fromPackageId + '/' + targetPackageName]
        AfterName(targetPackageName, targetSubpath) ==
            Versioned(targetPackageName, targetSubpath,
                      Get(s.installed, splitPackageIdAndSubpath(from)[1]
                                           \o <<"/">> \o targetPackageName))
        \* substring(0, -1) is the empty string, substring(-1) the whole string
        AfterScope(target, targetSlashPos0, targetSlashPos) ==
            AfterName(IF targetSlashPos0 < 0 THEN target
                      ELSE IF targetSlashPos < 0 THEN <<>>
                      ELSE Substring(target, 0, targetSlashPos),
                      IF targetSlashPos0 < 0 THEN <<>>
                      ELSE IF targetSlashPos < 0 THEN target
                      ELSE Substring(target, targetSlashPos, Len(target)))
        \* a scoped target ("@user/package/...") has a package name of two parts
        AfterSlash(target, targetSlashPos0) ==
            AfterScope(target, targetSlashPos0,
                       IF targetSlashPos0 >= 0 /\ CharAt(target, 0) = "@"
                       THEN IndexOf(target, "/", targetSlashPos0 + 1)
                       ELSE targetSlashPos0)
        \* var builtinPath = builtins[target]; if (builtinPath) return builtinPath
        AfterBuiltin(target, builtinPath) ==
            IF builtinPath # Undefined /\ builtinPath # <<>> THEN builtinPath
            ELSE AfterSlash(target, IndexOf(target, "/", 0))
    IN  AfterBuiltin(Stripped, Get(s.builtins, Stripped))

\* a faulty variant: a remapped path is remapped again
ResolveTail_RemapTwice(s, resolvedPath0) ==
    IF resolvedPath0 = RangeError THEN ResolveThrew
    ELSE IF resolvedPath0 = Undefined \/ resolvedPath0 = <<>> THEN NotResolved
    ELSE
    LET \* definitions[resolvedPath], then definitions[resolvedPathWithoutExtension]
        Lookup(resolvedPath, resolvedPathWithoutExtension) ==
            IF GetDef(s, resolvedPath) # "undefined"
            THEN Resolved(resolvedPath, GetDef(s, resolvedPath))
            ELSE IF resolvedPathWithoutExtension = Undefined
                    \/ GetDef(s, resolvedPathWithoutExtension) = "undefined"
            THEN NotResolved
            ELSE Resolved(resolvedPathWithoutExtension,
                          GetDef(s, resolvedPathWithoutExtension))
        AfterSecond(resolvedPath) == Lookup(resolvedPath, withoutExtension(resolvedPath))
        AfterRemap(resolvedPath) ==
            AfterSecond(IF Get(s.remapped, resolvedPath) # Undefined
                        THEN Get(s.remapped, resolvedPath) ELSE resolvedPath)
        \* var remappedPath = remapped[resolvedPath]
        Remapping(resolvedPath1, remappedPath) ==
            AfterRemap(IF remappedPath # Undefined /\ remappedPath # <<>>
                       THEN remappedPath ELSE resolvedPath1)
        AfterMain(resolvedPath1) ==
            IF resolvedPath1 = RangeError THEN ResolveThrew
            ELSE Remapping(resolvedPath1, Get(s.remapped, resolvedPath1))
        \* var relativePath = mains[resolvedPath]
        MainOf(relativePath0) ==
            AfterMain(IF relativePath0 # Undefined
                      THEN join(resolvedPath0,
                                IF relativePath0 = <<>> THEN <<"i", "n", "d", "e", "x">>
                                ELSE relativePath0)
                      ELSE resolvedPath0)
    IN  MainOf(Get(s.mains, resolvedPath0))

\* resolve, from the point where resolvedPath has been computed
ResolveTail(s, resolvedPath0) ==
    IF resolvedPath0 = RangeError THEN ResolveThrew
    ELSE IF resolvedPath0 = Undefined \/ resolvedPath0 = <<>> THEN NotResolved
    ELSE
    LET \* definitions[resolvedPath], then definitions[resolvedPathWithoutExtension]
        Lookup(resolvedPath, resolvedPathWithoutExtension) ==
            IF GetDef(s, resolvedPath) # "undefined"
            THEN Resolved(resolvedPath, GetDef(s, resolvedPath))
            ELSE IF resolvedPathWithoutExtension = Undefined
                    \/ GetDef(s, resolvedPathWithoutExtension) = "undefined"
            THEN NotResolved
            ELSE Resolved(resolvedPathWithoutExtension,
                          GetDef(s, resolvedPathWithoutExtension))
        AfterRemap(resolvedPath) == Lookup(resolvedPath, withoutExtension(resolvedPath))
        \* var remappedPath = remapped[resolvedPath]
        Remapping(resolvedPath1, remappedPath) ==
            AfterRemap(IF remappedPath # Undefined /\ remappedPath # <<>>
                       THEN remappedPath ELSE resolvedPath1)
        AfterMain(resolvedPath1) ==
            IF resolvedPath1 = RangeError THEN ResolveThrew
            ELSE Remapping(resolvedPath1, Get(s.remapped, resolvedPath1))
        \* var relativePath = mains[resolvedPath]
        MainOf(relativePath0) ==
            AfterMain(IF relativePath0 # Undefined
                      THEN join(resolvedPath0,
                                IF relativePath0 = <<>> THEN <<"i", "n", "d", "e", "x">>
                                ELSE relativePath0)
                      ELSE resolvedPath0)
    IN  MainOf(Get(s.mains, resolvedPath0))

RECURSIVE resolve(_, _, _)
RECURSIVE ResolveSearchPaths(_, _, _, _)

\* the loop over searchPaths, then the installed-module lookup
ResolveSearchPaths(s, target, from, i) ==
    IF i > Len(s.searchPaths)
    THEN ResolveTail(s, resolveInstalledModule(s, target, from))
    ELSE LET Candidate(resolved) ==
                 IF resolved.found \/ resolved.err # "none" THEN resolved
                 ELSE ResolveSearchPaths(s, target, from, i + 1)
         IN  Candidate(resolve(s, s.searchPaths[i] \o target, from))

resolve(s, target, from) ==
    IF CharAt(target, 0) = "." THEN ResolveTail(s, join(from, target))
    ELSE IF CharAt(target, 0) = "/" THEN ResolveTail(s, normalizePathParts(Split(target)))
    ELSE ResolveSearchPaths(s, target, from, 1)

(***************************************************************************)
(* Modules, exports values and the call stack                              *)
(***************************************************************************)

\* exports values are references: undefined, the literal a path was defined
\* with, or the n-th object made for the Module at index m
UndefinedRef == [kind |-> "undefined", m |-> 0, n |-> 0]
LiteralRef == [kind |-> "literal", m |-> 0, n |-> 0]
ObjectRef(m, n) == [kind |-> "object", m |-> m, n |-> n]

\* new Module(filename)
Module(filename) == [id |-> filename, loaded |-> FALSE, exports |-> UndefinedRef]

\* filename.substring(0, filename.lastIndexOf('/'))
DirnameOf(filename) == Substring(filename, 0, LastIndexOf(filename, "/"))

\* a factory that is executing: the Module it loads and the call that awaits it
\* (began is history: this invocation has called pending())
FactoryFrame(m, k) == [kind |-> "factory", m |-> m, k |-> k, began |-> FALSE]
\* a ready() whose for loop is at position i of the queue it took
DrainFrame(queue, i) == [kind |-> "drain", queue |-> queue, i |-> i]

\* the calls that can be waiting for a factory to return
KRequire == [op |-> "require", target |-> <<>>, globals |-> <<>>]
KRun == [op |-> "run", target |-> <<>>, globals |-> <<>>]
KInstanceRequire(target) == [op |-> "instanceRequire", target |-> target, globals |-> <<>>]
KDefine(path, globals) == [op |-> "define", target |-> path, globals |-> globals]

Top(s) == s.stack[Len(s.stack)]
Pop(s) == [s EXCEPT !.stack = SubSeq(@, 1, Len(@) - 1)]
Push(s, frame) == [s EXCEPT !.stack = Append(@, frame)]

\* whose code is running: a factory's, or (empty stack) the page's
InFactory(s) == s.stack # <<>> /\ Top(s).kind = "factory"
CurrentModule(s) == Top(s).m

\* the outcomes of a call into the loader: a Module, a factory entered (the
\* call is still in progress), or an error thrown
Got(s, m) == [s |-> s, out |-> "module", m |-> m, err |-> "none"]
Entered(s, m) == [s |-> s, out |-> "entered", m |-> m, err |-> "none"]
Threw(s, err) == [s |-> s, out |-> "throw", m |-> 0, err |-> err]

\* history: count an invocation of the factory of path
CountFactoryCall(s, path) ==
    [s EXCEPT !.factoryCalls =
        Put(@, path, IF path \in DOMAIN @ THEN @[path] + 1 ELSE 1)]

\* history: require returned the exports of Module m
NoteReturned(s, m) ==
    LET path == s.modules[m].id
    IN  [s EXCEPT !.returned =
            Put(@, path, (IF path \in DOMAIN @ THEN @[path] ELSE {})
                            \cup {[m |-> m, value |-> s.modules[m].exports]})]

(***************************************************************************)
(* Module.prototype.load and requireModule                                 *)
(***************************************************************************)

\* a faulty variant: the factory is called without this.exports = {} before it
CallFactory_NoExports(s, m, k) ==
    Push(CountFactoryCall(s, s.modules[m].id), FactoryFrame(m, k))

\* this.exports = {} and the call of the factory: the factory's code runs
\* from here on, until it returns or throws
CallFactory(s, m, k) ==
    LET s1 == [s EXCEPT !.modules[m].exports = ObjectRef(m, 0)]
    IN  Push(CountFactoryCall(s1, s.modules[m].id), FactoryFrame(m, k))

load(s, m, factoryOrObject, k) ==
    IF factoryOrObject = "function"
    THEN LET dirname == DirnameOf(s.modules[m].id)
             s1 == IF dirname \in DOMAIN s.cacheByDirname THEN s
                   ELSE [s EXCEPT !.cacheByDirname = Put(@, dirname, EmptyMap)]
         IN  Entered(CallFactory(s1, m, k), m)
    ELSE Got([s EXCEPT !.modules[m].exports = LiteralRef,
                       !.modules[m].loaded = TRUE], m)

\* a faulty variant: the instance is not put in the cache before it is loaded
CacheInstance_Skip(s, resolvedPath, m) == s

\* instanceCache[resolvedPath] = module, before the module is loaded
CacheInstance(s, resolvedPath, m) ==
    [s EXCEPT !.instanceCache = Put(@, resolvedPath, m)]

\* a faulty variant: a Module is created and cached under the target before the
\* target is resolved
requireModule_CacheBeforeResolve(s, target, from, k) ==
    LET m == Len(s.modules) + 1
        s1 == CacheInstance([s EXCEPT !.modules = Append(@, Module(target))], target, m)
        Instantiate(resolved) ==
            IF target = <<>> \/ ~resolved.found THEN Threw(s1, "MODULE_NOT_FOUND")
            ELSE IF resolved.path \in DOMAIN s.instanceCache
            THEN Got(s, s.instanceCache[resolved.path])
            ELSE load(CacheInstance([s EXCEPT !.modules = Append(@, Module(resolved.path))],
                                    resolved.path, m),
                      m, resolved.def, k)
    IN  Instantiate(resolve(s, target, from))

\* a faulty variant: the instance cache is not consulted
requireModule_AlwaysLoad(s, target, from, k) ==
    LET m == Len(s.modules) + 1
        Instantiate(resolved) ==
            IF target = <<>> \/ ~resolved.found THEN Threw(s, "MODULE_NOT_FOUND")
            ELSE load(CacheInstance([s EXCEPT !.modules = Append(@, Module(resolved.path))],
                                    resolved.path, m),
                      m, resolved.def, k)
    IN  Instantiate(resolve(s, target, from))

\* a faulty variant: the modules mapped to globals are not looked up
requireModule_NoPinned(s, target, from, k) ==
    IF target = <<>> THEN Threw(s, "MODULE_NOT_FOUND")
    ELSE
    LET m == Len(s.modules) + 1
        Instantiate(resolved) ==
            IF resolved.err # "none" THEN Threw(s, resolved.err)
            ELSE IF ~resolved.found THEN Threw(s, "MODULE_NOT_FOUND")
            ELSE IF resolved.path \in DOMAIN s.instanceCache
            THEN Got(s, s.instanceCache[resolved.path])
            ELSE load(CacheInstance([s EXCEPT !.modules = Append(@, Module(resolved.path))],
                                    resolved.path, m),
                      m, resolved.def, k)
    IN  Instantiate(resolve(s, target, from))

requireModule(s, target, from, k) ==
    IF target = <<>> THEN Threw(s, "MODULE_NOT_FOUND")
    ELSE
    LET m == Len(s.modules) + 1
        \* var resolved = resolve(target, from), and what follows it
        Instantiate(resolved) ==
            IF resolved.err # "none" THEN Threw(s, resolved.err)
            ELSE IF ~resolved.found THEN Threw(s, "MODULE_NOT_FOUND")
            ELSE IF resolved.path \in DOMAIN s.instanceCache
            THEN Got(s, s.instanceCache[resolved.path])
            ELSE IF resolved.path \in DOMAIN s.loadedGlobalsByRealPath
            THEN Got(s, s.loadedGlobalsByRealPath[resolved.path])
            ELSE load(CacheInstance([s EXCEPT !.modules = Append(@, Module(resolved.path))],
                                    resolved.path, m),
                      m, resolved.def, k)
    IN  Instantiate(resolve(s, target, from))

(***************************************************************************)
(* run, ready and the pending counter                                      *)
(***************************************************************************)

\* history: the tickets handed to run() calls so far
Range(seq) == {seq[i] : i \in 1..Len(seq)}
Issued(s) == s.enqueued \cup Range(s.executed)

\* var wait = !options || (options.wait !== false)
Wait(options) == options # "{wait:false}"

Queued(s) == [s |-> s, out |-> "queued", m |-> 0, err |-> "none"]

\* runQueue.push([path, options])
Enqueue(s, path, options, ticket) ==
    [s EXCEPT !.runQueue = Append(@, [path |-> path, options |-> options,
                                      ticket |-> ticket]),
              !.enqueued = @ \cup {ticket}]

\* require(path, '/') on behalf of run
Execute(s, path, ticket) ==
    requireModule([s EXCEPT !.executed = Append(@, ticket)], path, <<"/">>, KRun)

\* a faulty variant: the ready flag is not tested
run_IgnoreReady(s, path, options, ticket) == Execute(s, path, ticket)

run(s, path, options, ticket) ==
    IF Wait(options) /\ ~s._ready
    THEN Queued(Enqueue(s, path, options, ticket))
    ELSE Execute(s, path, ticket)

\* an error leaves the runtime's own frames (ready has no try/catch) and
\* arrives at the code that called in: a factory, or the page
RECURSIVE Unwind(_, _)
Unwind(s, err) ==
    IF s.stack # <<>> /\ Top(s).kind = "drain" THEN Unwind(Pop(s), err)
    ELSE [s EXCEPT !.exc = err]

RECURSIVE DrainWhile(_)
RECURSIVE DrainFor(_)

\* a faulty variant: the for loop is left as soon as the flag is false, without
\* handing the rest of the queue to run()
DrainFor_BreakInside(s) ==
    LET f == Top(s)
    IN  IF f.i < Len(f.queue) /\ s._ready
        THEN LET args == f.queue[f.i + 1]
                 AfterRun(r) ==
                     IF r.out = "entered" THEN r.s
                     ELSE IF r.out = "throw" THEN Unwind(r.s, r.err)
                     ELSE DrainFor(r.s)
             IN  AfterRun(run([s EXCEPT !.stack[Len(s.stack)].i = f.i + 1],
                              args.path, args.options, args.ticket))
        ELSE IF ~s._ready THEN Pop(s)
        ELSE DrainWhile(Pop(s))

\* the for loop of ready(), from position i of the queue it took
DrainFor(s) ==
    LET f == Top(s)
    IN  IF f.i < Len(f.queue)
        THEN LET args == f.queue[f.i + 1]
                 AfterRun(r) ==
                     IF r.out = "entered" THEN r.s
                     ELSE IF r.out = "throw" THEN Unwind(r.s, r.err)
                     ELSE DrainFor(r.s)
             IN  AfterRun(run([s EXCEPT !.stack[Len(s.stack)].i = f.i + 1],
                              args.path, args.options, args.ticket))
        ELSE IF ~s._ready THEN Pop(s)
        ELSE DrainWhile(Pop(s))

\* while ((len = runQueue.length)) { queue = runQueue; runQueue = []; ... }
DrainWhile(s) ==
    IF Len(s.runQueue) = 0 THEN s
    ELSE DrainFor(Push([s EXCEPT !.runQueue = <<>>], DrainFrame(s.runQueue, 0)))

markReady(s) == [s EXCEPT !._ready = TRUE]

ready(s) == DrainWhile(markReady(s))

\* $_mod.pending()
pending(s) ==
    [s EXCEPT !._ready = FALSE, !.pendingCount = @ + 1, !.jobs = Append(@, FALSE),
              !.stack = IF InFactory(s) THEN [@ EXCEPT ![Len(@)].began = TRUE] ELSE @]

\* a faulty variant: ready() is called on every completion
onPendingComplete_AlwaysReady(s, j) ==
    ready([s EXCEPT !.pendingCount = @ - 1, !.jobs[j] = TRUE])

\* job.done() for the handle j
onPendingComplete(s, j) ==
    LET s1 == [s EXCEPT !.pendingCount = @ - 1, !.jobs[j] = TRUE]
    IN  IF s1.pendingCount = 0 THEN ready(s1) ELSE s1

(***************************************************************************)
(* define                                                                  *)
(***************************************************************************)

\* the loop over globals, from the point where requireModule(path) gave m
RECURSIVE DefineLoop(_, _, _)
RECURSIVE DefineGot(_, _, _, _)

DefineGot(s, path, globals, m) ==
    DefineLoop([s EXCEPT !.loadedGlobalsByRealPath = Put(@, path, m),
                         !.globalVars = Put(@, Head(globals), s.modules[m].exports)],
               path, Tail(globals))

\* requireModule(path) has no second argument: the paths defined with
\* globals are absolute, and resolve does not read `from` for them
DefineLoop(s, path, globals) ==
    IF globals = <<>> THEN s
    ELSE LET AfterRequire(r) ==
                 IF r.out = "entered" THEN r.s
                 ELSE IF r.out = "throw" THEN Unwind(r.s, r.err)
                 ELSE DefineGot(r.s, path, globals, r.m)
         IN  AfterRequire(requireModule(s, path, Undefined, KDefine(path, globals)))

define(s, path, factoryOrObject, globals) ==
    DefineLoop([s EXCEPT !.definitions = Put(@, path, factoryOrObject)], path, globals)

(***************************************************************************)
(* The registration calls                                                  *)
(***************************************************************************)

registerMain(s, path, relativePath) == [s EXCEPT !.mains = Put(@, path, relativePath)]

remap(s, fromPath, toPath) == [s EXCEPT !.remapped = Put(@, fromPath, toPath)]

builtin(s, name, target) == [s EXCEPT !.builtins = Put(@, name, target)]

registerInstalledDependency(s, parentPath, packageName, packageVersion) ==
    [s EXCEPT !.installed = Put(@, parentPath \o <<"/">> \o packageName, packageVersion)]

addSearchPath(s, prefix) == [s EXCEPT !.searchPaths = Append(@, prefix)]

(***************************************************************************)
(* A factory returns or throws                                             *)
(***************************************************************************)

\* localCache[target] = module, in the directory cache of the requiring module
StoreLocal(s, dirname, target, m) ==
    [s EXCEPT !.cacheByDirname[dirname] = Put(@, target, m)]

\* this.loaded = true, and the call that was waiting for the factory goes on
FactoryReturns(s) ==
    LET f == Top(s)
        m == f.m
        s1 == Pop([s EXCEPT !.modules[m].loaded = TRUE])
    IN  IF f.k.op = "instanceRequire"
        THEN NoteReturned(StoreLocal(s1, DirnameOf(s1.modules[Top(s1).m].id),
                                     f.k.target, m), m)
        ELSE IF f.k.op = "require" THEN NoteReturned(s1, m)
        ELSE IF f.k.op = "define" THEN DefineGot(s1, f.k.target, f.k.globals, m)
        ELSE IF s1.stack # <<>> /\ Top(s1).kind = "drain" THEN DrainFor(s1)
        ELSE s1

\* the factory's frame is left without loaded being set
FactoryThrows(s, err) == Unwind(Pop(s), err)

(***************************************************************************)
(* Bounds and the inputs the calls are given                               *)
(***************************************************************************)

\* run() calls made by the page and the factories
MaxRuns == 3
\* pending() calls
MaxJobs == 2
\* done() calls beyond the number of jobs begun
MaxExtraDone == 1
\* assignments to module.exports per factory
MaxReassign == 1

PathA == <<"/", "p", "/", "a">>
PathB == <<"/", "p", "/", "b">>
PathC == <<"/", "p", "/", "c">>

\* what define is called with: <<path, factoryOrObject, globals>>; no
\* definition is ever registered for PathC
LoaderDefs == {<<PathA, "function", <<>>>>, <<PathB, "function", <<>>>>,
               <<PathB, "object", <<>>>>, <<PathA, "function", <<"g">>>>}
RunDefs == {<<PathA, "function", <<>>>>}

\* targets of the public require(target, from), called with from = "/"
PageTargets == {<<>>, PathA, PathB, PathC}
\* targets of the require injected into a factory
ModuleTargets == {<<>>, <<".", "/", "a">>, <<".", "/", "b">>, <<".", "/", "c">>}
RunPaths == {PathA, PathB}
Options == {"undefined", "{wait:false}"}

(***************************************************************************)
(* The calls, as made by the page or by the code of a factory              *)
(***************************************************************************)

Last(op, call, arg, out, m, value) ==
    [op |-> op, call |-> call, arg |-> arg, options |-> "undefined", out |-> out,
     m |-> m, value |-> value]

\* the call is over or has entered a factory: record it; an error that
\* reaches the page is reported there and gone
Settle(s, op, call, arg, out, m, value) ==
    [s EXCEPT !.last = Last(op, call, arg, IF s.exc # "none" THEN s.exc ELSE out,
                            m, value),
              !.exc = IF s.stack = <<>> THEN "none" ELSE @]

\* the outcome of a call that went through requireModule
SettleModule(r, op, arg) ==
    IF r.out = "throw" THEN Settle(Unwind(r.s, r.err), op, op, arg, r.err, 0, UndefinedRef)
    ELSE IF r.out = "module"
    THEN Settle(r.s, op, op, arg, "ok", r.m, r.s.modules[r.m].exports)
    ELSE Settle(r.s, op, op, arg, r.out, r.m, UndefinedRef)

\* a call that returns no Module: it returned, entered a factory or threw
SettlePlain(s0, s, op, arg) ==
    Settle(s, op, op, arg,
           IF Len(s.stack) > Len(s0.stack) THEN "entered" ELSE "ok", 0, UndefinedRef)

\* the outcome of run: the entry was queued, or it went through requireModule
SettleRun(r, path) ==
    IF r.out = "queued"
    THEN Settle(r.s, "run", "run", path, "queued", 0, UndefinedRef)
    ELSE SettleModule(r, "run", path)

\* the factory of frame f has returned, and the call that waited for it went on
SettleReturn(s, f) ==
    Settle(s, "return", f.k.op, f.k.target, "ok", f.m, s.modules[f.m].exports)

(***************************************************************************)
(* The component update scheduler: State, Component and update-manager     *)
(***************************************************************************)

\* the components of the page, the state keys of each and their values
Components == {"A", "B"}
Keys == {"x", "y"}
Values == {0, 1}

\* the keys for which the component class defines an update_<key> handler
HandledKeys == {"x"}

\* new State(component): clean, nothing recorded (null is the empty map)
NewState == [V_ |-> FALSE, _u_ |-> [k \in Keys |-> 0], _l_ |-> EmptyMap,
             _k_ |-> EmptyMap]

\* a mounted component: not queued (U_), not dirty (V_), not destroyed (T_),
\* its State (J_) and the state values its DOM shows; it has a root (K_),
\* which componentsByDOMNode maps to it (byNode) and whose nodes are in the
\* document under its parent's (attached), it has emitted "mount" (R_) and
\* tracks no subscription (L_)
NewComponent == [U_ |-> FALSE, V_ |-> FALSE, T_ |-> FALSE, J_ |-> NewState,
                 dom |-> [k \in Keys |-> 0],
                 Q_ |-> 0, shown |-> 0,
                 K_ |-> TRUE, byNode |-> TRUE, attached |-> TRUE,
                 R_ |-> FALSE, L_ |-> <<>>]

\* the event types of the emitter the components subscribe to
EventTypes == {"x"}

\* what an update of a component did: the update_<key> handlers it called,
\* each with the key, the new and the old value, the re-renders it made and
\* the "update" events it emitted
NoPass == [component |-> "none", handlers |-> {}, renders |-> 0, events |-> 0]

\* nothing has been called yet
NoUpdates == [nextTicks |-> 0, userCalls |-> 0, errors |-> 0,
              calls |-> [c \in Components |-> 0],
              mixed |-> [c \in Components |-> FALSE],
              atStart |-> <<>>, appended |-> <<>>, invoked |-> <<>>,
              joined |-> <<>>, waiting |-> {}, pass |-> NoPass,
              committed |-> [c \in Components |-> [k \in Keys |-> 0]],
              touched |-> [c \in Components |-> {}],
              events |-> [c \in Components |-> <<>>],
              typeErrors |-> 0, heard |-> <<>>, call |-> "none",
              subscriptions |-> 0, emits |-> 0,
              inits |-> [c \in Components |-> 0]]

InitScheduler ==
    /\ updatesScheduled = FALSE
    /\ batchStack = <<>>
    /\ unbatchedQueue = <<>>
    /\ immediates = 0
    /\ components = [c \in Components |-> NewComponent]
    /\ frames = <<>>
    /\ updateLog = NoUpdates
    /\ componentLookup = Components
    /\ emitter = [type \in EventTypes |-> <<>>]

CanCall == exc = "none"

\* no parent has been rendered yet
NoMorph == [rendered |-> 0, dom |-> <<>>, nodes |-> <<>>, m_ |-> EmptyMap,
            owner |-> "P", before |-> <<>>, foreign |-> 0, to |-> <<>>,
            moved |-> <<>>, created |-> <<>>, removed |-> <<>>,
            detached |-> <<>>]

\* the elements from the innermost one (1) up to the outermost one below
\* the body (MaxDepth); the parent of element n is element n + 1
MaxDepth == 3

\* an element without an event binding in its properties
NoBinding == [bound |-> FALSE, component |-> "A", once |-> FALSE,
              stops |-> FALSE, again |-> FALSE]

\* no event has been dispatched
NoDispatch == [props |-> [n \in 1..MaxDepth |-> NoBinding],
               before |-> [n \in 1..MaxDepth |-> NoBinding],
               target |-> 0, invoked |-> <<>>, stopped |-> FALSE,
               events |-> 0,
               bindings |-> [n \in 1..MaxDepth |-> NoBinding],
               calls |-> [n \in 1..MaxDepth |-> 0], nested |-> 0]

InitDom ==
    /\ morph = NoMorph
    /\ keySequence = [_Q_ |-> EmptyMap, requested |-> <<>>, returned |-> <<>>]
    /\ dispatch = NoDispatch

Init ==
    /\ definitions = EmptyMap
    /\ searchPaths = <<>>
    /\ _ready = FALSE
    /\ runQueue = <<>>
    /\ instanceCache = EmptyMap
    /\ installed = EmptyMap
    /\ builtins = EmptyMap
    /\ mains = EmptyMap
    /\ remapped = EmptyMap
    /\ cacheByDirname = EmptyMap
    /\ loadedGlobalsByRealPath = EmptyMap
    /\ pendingCount = 0
    /\ modules = <<>>
    /\ globalVars = EmptyMap
    /\ jobs = <<>>
    /\ stack = <<>>
    /\ exc = "none"
    /\ last = Last("init", "init", <<>>, "ok", 0, UndefinedRef)
    /\ factoryCalls = EmptyMap
    /\ executed = <<>>
    /\ enqueued = {}
    /\ returned = EmptyMap
    /\ resolution = NoResolution
    /\ InitScheduler
    /\ InitDom

\* $_mod.def(path, factoryOrObject, {globals})
Define(choices) ==
    /\ CanCall
    /\ \E c \in choices :
          Commit(SettlePlain(S, define(S, c[1], c[2], c[3]), "def", c[1]))

\* $_mod.require(target, '/')
require(s, target, from) ==
    LET Returned(r) == IF r.out = "module" THEN Got(NoteReturned(r.s, r.m), r.m) ELSE r
    IN  Returned(requireModule(s, target, from, KRequire))

RequireOf(targets) ==
    /\ CanCall
    /\ \E target \in targets :
          Commit(SettleModule(require(S, target, <<"/">>), "require", target))

Require == RequireOf(PageTargets)

\* the require function a factory is given
instanceRequire(s, target) ==
    LET dirname == DirnameOf(s.modules[CurrentModule(s)].id)
        localCache == s.cacheByDirname[dirname]
        Returned(r) ==
            IF r.out = "module"
            THEN Got(NoteReturned(StoreLocal(r.s, dirname, target, r.m), r.m), r.m)
            ELSE r
    IN  IF target \in DOMAIN localCache
        THEN Got(NoteReturned(s, localCache[target]), localCache[target])
        ELSE Returned(requireModule(s, target, dirname, KInstanceRequire(target)))

InstanceRequireOf(targets) ==
    /\ CanCall
    /\ InFactory(S)
    /\ \E target \in targets :
          Commit(SettleModule(instanceRequire(S, target), "instanceRequire", target))

InstanceRequire == InstanceRequireOf(ModuleTargets)

\* $_mod.run(path, options)
Run ==
    /\ CanCall
    /\ Cardinality(Issued(S)) < MaxRuns
    /\ \E path \in RunPaths, options \in Options :
          Commit([SettleRun(run(S, path, options, Cardinality(Issued(S)) + 1), path)
                     EXCEPT !.last.options = options])

\* $_mod.ready()
Ready ==
    /\ CanCall
    /\ Commit(SettlePlain(S, ready(S), "ready", <<>>))

\* $_mod.pending()
Pending ==
    /\ CanCall
    /\ Len(jobs) < MaxJobs
    /\ Commit(SettlePlain(S, pending(S), "pending", <<>>))

\* done() on a handle pending() returned, whether or not it was called before
Done ==
    /\ CanCall
    /\ pendingCount > -MaxExtraDone
    /\ \E j \in 1..Len(jobs) :
          Commit(SettlePlain(S, onPendingComplete(S, j), "done", <<>>))

\* module.exports = <a new object>, in a factory
SetExports ==
    /\ CanCall
    /\ InFactory(S)
    /\ LET m == CurrentModule(S)
       IN  /\ modules[m].exports.n < MaxReassign
           /\ Commit(Settle([S EXCEPT !.modules[m].exports =
                                        ObjectRef(m, modules[m].exports.n + 1)],
                            "setExports", "setExports", <<>>, "ok", m, UndefinedRef))

\* the factory on top of the stack returns
Return ==
    /\ CanCall
    /\ InFactory(S)
    /\ Commit(SettleReturn(FactoryReturns(S), Top(S)))

\* the factory on top of the stack throws, or lets the error it was thrown pass
Throw ==
    /\ InFactory(S)
    /\ LET f == Top(S)
           err == IF exc # "none" THEN exc ELSE "Error"
       IN  Commit(Settle(FactoryThrows(S, err), "throw", f.k.op, f.k.target,
                         err, f.m, UndefinedRef))

\* the factory on top of the stack catches the error it was thrown
Catch ==
    /\ exc # "none"
    /\ Commit(Settle([S EXCEPT !.exc = "none"], "catch", "catch", <<>>, "ok", 0,
                     UndefinedRef))

Next ==
    \/ Define(LoaderDefs)
    \/ Require
    \/ InstanceRequire
    \/ SetExports
    \/ Return
    \/ Throw
    \/ Catch

\* the loader: define, require and the factories' own requires
Spec == Init /\ [][Next]_vars

NextRun ==
    \/ Define(RunDefs)
    \/ Run
    \/ Pending
    \/ Done
    \/ Ready
    \/ Return
    \/ Throw
    \/ Catch

\* the run queue: run, ready, pending and done, called by the page and by
\* the entry points' factories
SpecRun == Init /\ [][NextRun]_vars

(***************************************************************************)
(* Resolution against the registered tables (SpecResolve)                  *)
(***************************************************************************)

\* search-path prefixes registered
MaxSearchPaths == 1

\* the package "a", version 1, has "b", version 2, installed; "c" has not
PkgA == <<"a", "$", "1">>
NameB == <<"b">>
Version2 == <<"2">>
FromA == <<"/", "a", "$", "1", "/", "m">>
FromC == <<"/", "c", "$", "1", "/", "m">>
\* "/b$2", where the installed "b" is found from package "a"
PathB2 == <<"/", "b", "$", "2">>
PathB2Main == <<"/", "b", "$", "2", "/", "m">>
\* the path the builtin alias of "b" points to
PathZ == <<"/", "z">>
\* a search-path prefix and the candidate it makes of "b"
PrefixS == <<"/", "s", "/">>
PathSB == <<"/", "s", "/", "b">>

ResolveDefs == {<<PathB2, "object", <<>>>>, <<PathZ, "object", <<>>>>,
                <<PathB2Main, "object", <<>>>>, <<PathSB, "object", <<>>>>}
ResolveTargets == {NameB, <<"b", "/">>, <<"b", "/", "m">>}
ResolveFroms == {FromA, FromC}

\* $_mod.main(path, relativePath)
MainOf(choices) ==
    /\ CanCall
    /\ \E c \in choices :
          Commit(SettlePlain(S, registerMain(S, c[1], c[2]), "main", c[1]))

Main == MainOf({<<PathB2, <<"m">>>>})

\* $_mod.remap(fromPath, toPath)
RemapOf(choices) ==
    /\ CanCall
    /\ \E c \in choices :
          Commit(SettlePlain(S, remap(S, c[1], c[2]), "remap", c[1]))

Remap == RemapOf({<<PathZ, PathB2>>})

\* $_mod.builtin(name, target)
Builtin ==
    /\ CanCall
    /\ Commit(SettlePlain(S, builtin(S, NameB, PathZ), "builtin", NameB))

\* $_mod.installed(parentPath, packageName, packageVersion)
Installed ==
    /\ CanCall
    /\ Commit(SettlePlain(S, registerInstalledDependency(S, PkgA, NameB, Version2),
                          "installed", NameB))

\* $_mod.searchPath(prefix)
SearchPath ==
    /\ CanCall
    /\ Len(searchPaths) < MaxSearchPaths
    /\ Commit(SettlePlain(S, addSearchPath(S, PrefixS), "searchPath", PrefixS))

\* $_mod.resolve(target, from)
ResolveOf(targets, froms) ==
    /\ CanCall
    /\ \E target \in targets, from \in froms :
          LET Result(r) == [called |-> TRUE, op |-> "resolve", target |-> target,
                            from |-> from, found |-> r.found, path |-> r.path,
                            subpath |-> <<>>, err |-> r.err]
          IN  resolution' = Result(resolve(S, target, from))
    /\ UNCHANGED <<definitions, searchPaths, _ready, runQueue, instanceCache,
                   installed, builtins, mains, remapped, cacheByDirname,
                   loadedGlobalsByRealPath, pendingCount, modules, globalVars,
                   jobs, stack, exc, last, factoryCalls, executed, enqueued,
                   returned>>
    /\ UNCHANGED schedulerVars
    /\ UNCHANGED domVars

Resolve == ResolveOf(ResolveTargets, ResolveFroms)

NextResolve ==
    \/ Define(ResolveDefs)
    \/ Main
    \/ Remap
    \/ Builtin
    \/ Installed
    \/ SearchPath
    \/ Resolve

\* the resolver: the tables are registered and resolve is called
SpecResolve == Init /\ [][NextResolve]_vars

\* the last resolve call was for the bare specifier "b", from package "a",
\* with both a builtin alias and an installed version registered for it,
\* and no search path, main or remap in the way
BothRegistered ==
    /\ resolution.called
    /\ resolution.target = NameB /\ resolution.from = FromA
    /\ NameB \in DOMAIN builtins
    /\ (PkgA \o <<"/">> \o NameB) \in DOMAIN installed
    /\ searchPaths = <<>> /\ mains = EmptyMap /\ remapped = EmptyMap

\* C10 as stated: with both an installed version and a builtin alias,
\* resolution yields the installed versioned path /<name>$<version>.
C10_InstalledBeforeBuiltin ==
    BothRegistered /\ PathB2 \in DOMAIN definitions
        => resolution.found /\ resolution.path = PathB2

\* C10 (amended): for a bare specifier that no search path resolves, the
\* builtin alias comes first: with a builtin alias registered, resolution
\* goes to the builtin path whether or not an installed version exists (and
\* finds nothing when the builtin path has no definition); the installed
\* versioned path /<name>$<version><subpath> is used only when the
\* specifier has no builtin alias.
C10_BuiltinBeforeInstalled ==
    /\ BothRegistered
          => /\ resolution.found <=> PathZ \in DOMAIN definitions
             /\ resolution.found => resolution.path = PathZ
    /\ (/\ resolution.called
        /\ resolution.target = NameB /\ resolution.from = FromA
        /\ NameB \notin DOMAIN builtins
        /\ (PkgA \o <<"/">> \o NameB) \in DOMAIN installed
        /\ searchPaths = <<>> /\ mains = EmptyMap /\ remapped = EmptyMap)
          => /\ resolution.found <=> PathB2 \in DOMAIN definitions
             /\ resolution.found => resolution.path = PathB2

\* "b" was resolved with both registered and both paths defined: the
\* builtin path came out
C10_Witness ==
    /\ BothRegistered
    /\ PathB2 \in DOMAIN definitions /\ PathZ \in DOMAIN definitions
    /\ resolution.path = PathZ

(***************************************************************************)
(* Properties of the loader (Spec)                                         *)
(***************************************************************************)

\* the factory frames on the stack, bottom first
FactoryFrames == SelectSeq(stack, LAMBDA f : f.kind = "factory")

\* the last call was a require (public or injected) that returned a Module's
\* exports, at once or when the factory it entered returned
RequireReturned ==
    /\ last.out = "ok"
    /\ \/ last.op \in {"require", "instanceRequire"}
       \/ last.op = "return" /\ last.call \in {"require", "instanceRequire"}

\* C1 as stated: for every resolved path the factory is invoked at most once
\* and all require calls that resolve to it return one and the same exports
\* reference.
C1_IdenticalExports ==
    /\ \A path \in DOMAIN factoryCalls : factoryCalls[path] <= 1
    /\ \A path \in DOMAIN returned :
          \A r1, r2 \in returned[path] : r1.value = r2.value

\* C1 (amended): for every resolved path the factory is invoked at most once
\* and all require calls that resolve to it return the exports of one and the
\* same Module instance (the cached one), as that instance's exports stands
\* when the call returns; the references returned are identical as long as
\* the factory has not assigned module.exports.
C1_SingleInstance ==
    /\ \A path \in DOMAIN factoryCalls : factoryCalls[path] <= 1
    /\ \A path \in DOMAIN returned :
          /\ path \in DOMAIN instanceCache
          /\ \A r \in returned[path] : r.m = instanceCache[path]
          /\ modules[instanceCache[path]].exports.n = 0
                => \A r \in returned[path] :
                      r.value = modules[instanceCache[path]].exports
    /\ RequireReturned => last.value = modules[last.m].exports

\* two requires of one path returned different references: the factory
\* assigned module.exports in between
C1_Witness ==
    /\ RequireReturned
    /\ modules[last.m].id \in DOMAIN factoryCalls
    /\ factoryCalls[modules[last.m].id] = 1
    /\ Cardinality(returned[modules[last.m].id]) = 2

\* C2: when a factory's require resolves to a module whose own factory is
\* still executing further down the stack (a circular require), the value
\* it receives is the current exports object of that cached in-progress
\* instance: an object made for that instance, not undefined, and the path's
\* factory has been invoked once only.
C2_CircularSeesInProgressExports ==
    (/\ last.op = "instanceRequire"
     /\ last.out = "ok"
     /\ \E i \in 1..Len(FactoryFrames) : FactoryFrames[i].m = last.m)
    => /\ ~modules[last.m].loaded
       /\ last.value = modules[last.m].exports
       /\ last.value # UndefinedRef
       /\ last.value.kind = "object" /\ last.value.m = last.m
       /\ instanceCache[modules[last.m].id] = last.m
       /\ factoryCalls[modules[last.m].id] = 1

\* the factory of A is executing, it required B, and B's factory has just
\* required A
C2_Witness ==
    /\ Len(FactoryFrames) = 2
    /\ last.op = "instanceRequire" /\ last.out = "ok"
    /\ last.m = FactoryFrames[1].m
    /\ FactoryFrames[2].k.op = "instanceRequire"

\* C3: no factory is entered while it is already executing: the factories
\* on the stack belong to pairwise different paths, so the nesting of a
\* require is bounded by the number of definitions and the call terminates.
C3_NoReentry ==
    /\ \A i, j \in 1..Len(FactoryFrames) :
          i # j => modules[FactoryFrames[i].m].id # modules[FactoryFrames[j].m].id
    /\ Len(stack) <= Cardinality(DOMAIN definitions)

\* a factory has just required its own path
C3_Witness ==
    /\ InFactory(S)
    /\ last.op = "instanceRequire" /\ last.out = "ok"
    /\ last.m = CurrentModule(S)

\* C9: a require (public or injected) whose target is empty or resolves to
\* no definition raises MODULE_NOT_FOUND and changes neither the instance
\* cache, nor the definitions, nor the globals, creates no Module and
\* invokes no factory; and MODULE_NOT_FOUND is raised by a require in no
\* other case.
C9_NotFoundLeavesStateUnchanged ==
    [][ /\ (last'.op = "require"
            => ((last'.arg = <<>> \/ ~resolve(S, last'.arg, <<"/">>).found)
                   <=> last'.out = "MODULE_NOT_FOUND"))
        /\ (last'.op = "instanceRequire"
            => (last'.out = "MODULE_NOT_FOUND"
                   => \/ last'.arg = <<>>
                      \/ ~resolve(S, last'.arg,
                                  DirnameOf(modules[CurrentModule(S)].id)).found))
        /\ (last'.op \in {"require", "instanceRequire"}
              /\ last'.out = "MODULE_NOT_FOUND"
            => /\ UNCHANGED <<instanceCache, definitions, loadedGlobalsByRealPath,
                              globalVars, modules, factoryCalls, cacheByDirname,
                              stack>>
               /\ (stack # <<>> => exc' = "MODULE_NOT_FOUND"))
      ]_vars

\* a require of a path that has no definition failed, with Modules in the cache
C9_Witness ==
    /\ last.op = "require" /\ last.arg = PathC /\ last.out = "MODULE_NOT_FOUND"
    /\ DOMAIN instanceCache # {}
    /\ stack # <<>>

(***************************************************************************)
(* Properties of the run queue (SpecRun)                                   *)
(***************************************************************************)

\* the step executes at least one entry point
Executes == executed' # executed
\* the ticket of the next run() call
NewTicket == Cardinality(Issued(S)) + 1
\* the step is a run() call made by the page or by a factory
RunStep == last'.op = "run" /\ NewTicket \in enqueued' \cup Range(executed')
\* the step is the return of an entry point's factory into the for loop of a
\* ready() that is draining the queue
ReturnIntoDrain ==
    /\ last'.op = "return"
    /\ Len(stack) >= 2
    /\ Top(S).kind = "factory" /\ Top(S).k.op = "run"
    /\ stack[Len(stack) - 1].kind = "drain"
\* the entries of that drain which have not been run yet
Remaining ==
    LET d == stack[Len(stack) - 1]
    IN  SubSeq(d.queue, d.i + 1, Len(d.queue))

\* C4: a run() that asks to wait while the ready flag is false appends
\* (path, options) to the run queue and executes nothing; a run() with
\* wait === false or with the flag true executes the entry point at once
\* through require and leaves the run queue as it is.  No entry point that
\* was asked to wait is executed, by run or by a drain, with the flag false.
C4_RunDefersUntilReady ==
    [][ /\ (RunStep /\ Wait(last'.options) /\ ~_ready
            => /\ runQueue' = Append(runQueue, [path |-> last'.arg,
                                                 options |-> last'.options,
                                                 ticket |-> NewTicket])
               /\ last'.out = "queued"
               /\ UNCHANGED <<executed, modules, instanceCache, stack, factoryCalls>>)
        /\ (RunStep /\ (~Wait(last'.options) \/ _ready)
            => /\ runQueue' = runQueue
               /\ executed' = Append(executed, NewTicket)
               /\ last'.out # "queued"
               /\ (last'.out = "ok" => last'.arg \in DOMAIN instanceCache')
               /\ (last'.out = "entered"
                      => /\ Len(stack') = Len(stack) + 1
                         /\ modules'[Top(S').m].id = last'.arg))
        /\ (Executes /\ ~(RunStep /\ ~Wait(last'.options)) => _ready')
        /\ (Executes /\ last'.op = "return" => _ready)
      ]_vars

\* a run() that asked to wait was put behind another entry, not being ready
C4_Witness ==
    /\ last.op = "run" /\ last.out = "queued"
    /\ Len(runQueue) = 2
    /\ ~_ready
    /\ executed # <<>>

\* C5: pending() sets the ready flag to false and adds one to the counter;
\* done() takes one from the counter and calls ready() (the flag is set and
\* the head of the run queue is executed) exactly when the counter is then
\* zero; with the counter non-zero it calls nothing.
C5_PendingCounter ==
    [][ /\ (last'.op = "pending"
            => /\ ~_ready'
               /\ pendingCount' = pendingCount + 1
               /\ UNCHANGED <<runQueue, executed>>)
        /\ (last'.op = "done"
            => /\ pendingCount' = pendingCount - 1
               /\ (pendingCount' = 0
                      => /\ _ready'
                         /\ (runQueue # <<>>
                               => /\ Len(executed') > Len(executed)
                                  /\ executed'[Len(executed) + 1] = runQueue[1].ticket))
               /\ (pendingCount' # 0
                      => UNCHANGED <<_ready, runQueue, executed, stack, modules>>))
      ]_vars

\* a job was completed while another is outstanding: nothing was drained
C5_Witness ==
    /\ last.op = "done"
    /\ pendingCount = 1
    /\ ~_ready
    /\ runQueue # <<>>

\* C6 as stated: no entry point that was asked to wait is executed while the
\* pending counter is greater than zero.
C6_NoExecutionWhilePending ==
    [][ Executes /\ ~(RunStep /\ ~Wait(last'.options)) => pendingCount' <= 0 ]_vars

\* C7 as stated: when the factory of an entry point executed by a drain has
\* begun a pending job, no entry after it is executed in that drain and the
\* entries not yet executed are in the run queue when the drain returns.
\* (Stated for the returns at which the flag is not true with a job still
\* outstanding, so that a ready() called over an outstanding job, the case
\* of C6, is not what refutes it.)
C7_PendingStopsDrain ==
    [][ ReturnIntoDrain /\ Top(S).began /\ ~(_ready /\ pendingCount > 0)
        => /\ ~Executes
           /\ runQueue' = runQueue \o Remaining ]_vars

\* C7 (amended): when the ready flag is false at the moment the factory of
\* an entry point executed by a drain returns, no entry after it is executed
\* in that drain, the drain returns, and the entries not yet executed are
\* then in the run queue, in their order, behind the entries queued since.
C7_NotReadyStopsDrain ==
    [][ ReturnIntoDrain /\ ~_ready
        => /\ ~Executes
           /\ runQueue' = runQueue \o Remaining
           /\ stack' = SubSeq(stack, 1, Len(stack) - 2) ]_vars

\* a drain was stopped by an entry point that began a pending job: the entry
\* behind it is back in the run queue
C7_Witness ==
    /\ last.op = "return" /\ last.call = "run"
    /\ ~_ready /\ pendingCount > 0
    /\ stack = <<>>
    /\ executed = <<1>>
    /\ runQueue # <<>> /\ runQueue[Len(runQueue)].ticket = 2

\* C8 as stated: entries put on the queue are executed in the order of the
\* run() calls that queued them: of two queued entries that have both been
\* executed, the one queued by the earlier run() call was executed first.
C8_Fifo ==
    \A i, j \in 1..Len(executed) :
        (i < j /\ executed[i] \in enqueued /\ executed[j] \in enqueued)
           => executed[i] < executed[j]

(***************************************************************************)
(* Relative specifiers and require.resolve (SpecPkg)                       *)
(***************************************************************************)

\* "/pkg$1.0.0/lib", the directory of the module /pkg$1.0.0/lib/index
PkgLib == <<"/", "p", "k", "g", "$", "1", ".", "0", ".", "0", "/", "l", "i", "b">>
PkgIndex == PkgLib \o <<"/", "i", "n", "d", "e", "x">>
PkgLibA == PkgLib \o <<"/", "a">>
PkgIndexA == PkgIndex \o <<"/", "a">>
DotA == <<".", "/", "a">>
DotC == <<".", "/", "c">>

PkgDefs == {<<PkgIndex, "function", <<>>>>, <<PkgLibA, "object", <<>>>>,
            <<PkgIndexA, "object", <<>>>>}
\* targets of the require and the require.resolve given to the factory;
\* nothing is ever defined that "./c" resolves to
PkgTargets == {<<>>, DotA, DotC}

\* the outcomes of require.resolve: the resolved path, or an error thrown
ResolvedTo(s, path) == [s |-> s, out |-> "ok", path |-> path, err |-> "none"]
ResolveFailed(s, err) == [s |-> s, out |-> "throw", path |-> Undefined, err |-> err]

\* a faulty variant: the target is required, and the path of the Module returned
instanceResolve_Instantiates(s, target) ==
    LET dirname == DirnameOf(s.modules[CurrentModule(s)].id)
        Result(r) ==
            IF r.out = "throw" THEN ResolveFailed(r.s, r.err)
            ELSE ResolvedTo(r.s, r.s.modules[r.m].id)
    IN  Result(requireModule(s, target, dirname, KInstanceRequire(target)))

\* instanceRequire.resolve(target), of the require given to the factory that
\* is executing
instanceResolve(s, target) ==
    LET dirname == DirnameOf(s.modules[CurrentModule(s)].id)
        Result(resolved) ==
            IF resolved.err # "none" THEN ResolveFailed(s, resolved.err)
            ELSE IF ~resolved.found THEN ResolveFailed(s, "MODULE_NOT_FOUND")
            ELSE ResolvedTo(s, resolved.path)
    IN  IF target = <<>> THEN ResolveFailed(s, "MODULE_NOT_FOUND")
        ELSE Result(resolve(s, target, dirname))

\* what require.resolve(target) leaves behind: the path returned, or the
\* error thrown at the factory that called it
SettleResolve(r, target, dirname) ==
    /\ CommitLoader(Settle(IF r.out = "throw" THEN Unwind(r.s, r.err) ELSE r.s,
                           "require.resolve", "require.resolve", target,
                           IF r.out = "throw" THEN r.err ELSE "ok", 0, UndefinedRef))
    /\ resolution' = [called |-> TRUE, op |-> "require.resolve", target |-> target,
                      from |-> dirname, found |-> r.out = "ok", path |-> r.path,
                      subpath |-> <<>>, err |-> r.err]

InstanceResolveOf(targets) ==
    /\ CanCall
    /\ InFactory(S)
    /\ \E target \in targets :
          SettleResolve(instanceResolve(S, target), target,
                        DirnameOf(modules[CurrentModule(S)].id))

PkgDefine == Define(PkgDefs)
PkgRequire == RequireOf({PkgIndex})
PkgInstanceRequire == InstanceRequireOf(PkgTargets)
PkgInstanceResolve == InstanceResolveOf(PkgTargets)
PkgResolve == ResolveOf({DotA}, {PkgIndex, PkgLib})

NextPkg ==
    \/ PkgDefine
    \/ PkgRequire
    \/ PkgInstanceRequire
    \/ PkgInstanceResolve
    \/ PkgResolve
    \/ Return
    \/ Throw
    \/ Catch

\* the package /pkg$1.0.0: its index module is required, and requires and
\* resolves relative targets
SpecPkg == Init /\ [][NextPkg]_vars

\* the factory of /pkg$1.0.0/lib/index is the code that is running
InIndexFactory == InFactory(S) /\ modules[CurrentModule(S)].id = PkgIndex

\* C11 as stated: "./a" resolved from the module path /pkg$1.0.0/lib/index
\* through the public resolve(target, from) yields /pkg$1.0.0/lib/a.
C11_PublicResolveJoinsDirectory ==
    (/\ resolution.op = "resolve"
     /\ resolution.target = DotA /\ resolution.from = PkgIndex
     /\ PkgLibA \in DOMAIN definitions)
        => resolution.found /\ resolution.path = PkgLibA

\* C11 (amended): resolve(target, from) joins a relative target against
\* `from` itself: from the module path /pkg$1.0.0/lib/index "./a" is
\* /pkg$1.0.0/lib/index/a, and it is /pkg$1.0.0/lib/a only when `from` is
\* the directory /pkg$1.0.0/lib. The require given to the factory of
\* /pkg$1.0.0/lib/index, and its resolve, pass that directory: there "./a"
\* is /pkg$1.0.0/lib/a.
C11_JoinsAgainstFrom ==
    /\ resolution.op = "resolve" /\ resolution.target = DotA
          => /\ resolution.from = PkgIndex
                  => /\ resolution.found <=> PkgIndexA \in DOMAIN definitions
                     /\ resolution.found => resolution.path = PkgIndexA
             /\ resolution.from = PkgLib
                  => /\ resolution.found <=> PkgLibA \in DOMAIN definitions
                     /\ resolution.found => resolution.path = PkgLibA
    /\ resolution.op = "require.resolve" /\ resolution.target = DotA
       /\ InIndexFactory
          => /\ resolution.from = PkgLib
             /\ resolution.found <=> PkgLibA \in DOMAIN definitions
             /\ resolution.found => resolution.path = PkgLibA
    /\ last.op = "instanceRequire" /\ last.arg = DotA /\ InIndexFactory
          => /\ last.out = "ok" <=> PkgLibA \in DOMAIN definitions
             /\ last.out = "ok" => modules[last.m].id = PkgLibA

\* "./a" was resolved from /pkg$1.0.0/lib/index with both candidates
\* defined: /pkg$1.0.0/lib/index/a came out
C11_Witness ==
    /\ resolution.op = "resolve"
    /\ resolution.target = DotA /\ resolution.from = PkgIndex
    /\ PkgLibA \in DOMAIN definitions /\ PkgIndexA \in DOMAIN definitions
    /\ resolution.path = PkgIndexA

\* the step is a call of require.resolve
ResolveStep == resolution'.op = "require.resolve" /\ resolution' # resolution

\* C16: a call of the injected require.resolve(target) leaves the instance
\* cache, the per-directory cache, the Modules (their loaded flags and
\* exports) and the call stack unchanged and invokes no factory; it throws
\* MODULE_NOT_FOUND exactly when require(target) from the same module would,
\* and otherwise returns the path resolve finds.
C16_ResolveInstantiatesNothing ==
    [][ ResolveStep =>
          /\ UNCHANGED <<instanceCache, cacheByDirname, modules, factoryCalls,
                         stack, loadedGlobalsByRealPath, definitions>>
          /\ LET target == resolution'.target
                 r == requireModule(S, target, resolution'.from,
                                    KInstanceRequire(target))
             IN  /\ exc' = "MODULE_NOT_FOUND"
                      <=> (r.out = "throw" /\ r.err = "MODULE_NOT_FOUND")
                 /\ exc' \in {"none", "MODULE_NOT_FOUND"}
                 /\ exc' = "none"
                      => /\ resolution'.found
                         /\ resolution'.path = resolve(S, target, resolution'.from).path
                         /\ resolution'.path \in DOMAIN definitions
       ]_vars

\* require.resolve returned the path of a module that has no instance
C16_Witness ==
    /\ resolution.op = "require.resolve"
    /\ resolution.found /\ resolution.path = PkgLibA
    /\ PkgLibA \notin DOMAIN instanceCache
    /\ last.out = "ok"

\* require.resolve threw on a target that resolves to nothing
C16_WitnessNotFound ==
    /\ resolution.op = "require.resolve"
    /\ resolution.target = DotC
    /\ exc = "MODULE_NOT_FOUND"

(***************************************************************************)
(* The path functions on their own (SpecPaths)                             *)
(***************************************************************************)

\* segments in a target given to join and normalizePathParts
MaxSegments == 3

Segments == {<<".">>, <<".", ".">>, <<"a">>, <<>>}
\* the targets of 1 to MaxSegments segments: "..", "a/./..", "/a/", "a//", ...
SegmentLists == UNION {[1..k -> Segments] : k \in 1..MaxSegments}
JoinTargets == {JoinParts(segs) : segs \in SegmentLists}
JoinFroms == {<<"/">>, <<"/", "a">>, <<"/", "a", "/", "b">>}
\* absolute targets, as resolve hands them to normalizePathParts
AbsoluteTargets == {<<"/">> \o target : target \in JoinTargets}

ScopedLong == <<"/", "@", "s", "/", "p", "$", "1", "/", "l", "/", "x">>
ScopedShort == <<"/", "@", "s", "/", "p", "$", "1">>
UnscopedLong == <<"/", "p", "$", "1", "/", "l", "/", "x">>
UnscopedShort == <<"/", "p", "$", "1">>
SplitInputs == {ScopedLong, ScopedShort, UnscopedLong, UnscopedShort}

\* the loader's own state, which the path functions neither read nor write
loaderVars == <<definitions, searchPaths, _ready, runQueue, instanceCache,
                installed, builtins, mains, remapped, cacheByDirname,
                loadedGlobalsByRealPath, pendingCount, modules, globalVars,
                jobs, stack, exc, last, factoryCalls, executed, enqueued,
                returned>>

\* a path function was called with (from, target) and gave path, or threw
PathResult(op, from, target, path, subpath) ==
    [called |-> TRUE, op |-> op, target |-> target, from |-> from,
     found |-> path # RangeError, path |-> path, subpath |-> subpath,
     err |-> IF path = RangeError THEN "RangeError" ELSE "none"]

\* $_mod.join(from, target)
Join ==
    /\ \E from \in JoinFroms, target \in JoinTargets :
          resolution' = PathResult("join", from, target, join(from, target), <<>>)
    /\ UNCHANGED loaderVars
    /\ UNCHANGED schedulerVars
    /\ UNCHANGED domVars

\* normalizePathParts(target.split('/')), as resolve does for an absolute target
Normalize ==
    /\ \E target \in AbsoluteTargets :
          resolution' = PathResult("normalize", <<>>, target,
                                   normalizePathParts(Split(target)), <<>>)
    /\ UNCHANGED loaderVars
    /\ UNCHANGED schedulerVars
    /\ UNCHANGED domVars

\* splitPackageIdAndSubpath(path)
SplitPath ==
    /\ \E path \in SplitInputs :
          LET Result(r) == PathResult("split", path, <<>>, r[1], r[2])
          IN  resolution' = Result(splitPackageIdAndSubpath(path))
    /\ UNCHANGED loaderVars
    /\ UNCHANGED schedulerVars
    /\ UNCHANGED domVars

NextPaths ==
    \/ Join
    \/ Normalize
    \/ SplitPath

\* the path functions, called with the inputs above
SpecPaths == Init /\ [][NextPaths]_vars

\* the segments of a requesting path after the leading slash, and the
\* number of them that name the package: two when the first begins with "@"
FromSegments(path) == Tail(Split(path))
IdSegments(path) ==
    IF CharAt(FromSegments(path)[1], 0) = "@" /\ Len(FromSegments(path)) >= 2
    THEN 2 ELSE 1

\* C12 as stated: the package id of a requesting path is its first two
\* segments when the first begins with "@" and its first segment otherwise,
\* and the subpath is the remainder.
C12_ScopedPackageId ==
    resolution.op = "split"
        => LET segs == FromSegments(resolution.from)
               n == IdSegments(resolution.from)
           IN  /\ resolution.path = JoinParts(SubSeq(segs, 1, n))
               /\ resolution.subpath =
                      IF Len(segs) = n THEN <<>>
                      ELSE <<"/">> \o JoinParts(SubSeq(segs, n + 1, Len(segs)))

\* a path is canonical: absolute, without "." and ".." segments, without a
\* trailing slash unless it is the root, and normalized to itself
Canonical(path) ==
    /\ path # RangeError
    /\ CharAt(path, 0) = "/"
    /\ \A i \in 1..Len(Split(path)) : Split(path)[i] \notin {<<".">>, <<".", ".">>}
    /\ path = <<"/">> \/ CharAt(path, Len(path) - 1) # "/"
    /\ normalizePathParts(Split(path)) = path

\* C14 as stated: for every absolute base and every target, join and
\* normalizePathParts give a canonical absolute path.
C14_NormalizedIsCanonical ==
    resolution.op \in {"join", "normalize"} => Canonical(resolution.path)

(***************************************************************************)
(* Mains, remaps and extensions (SpecTail)                                 *)
(***************************************************************************)

PathZJs == <<"/", "z", ".", "j", "s">>
PathZIndex == <<"/", "z", "/", "i", "n", "d", "e", "x">>

TailDefs == {<<PathB2, "object", <<>>>>, <<PathZ, "object", <<>>>>,
             <<PathB2Main, "object", <<>>>>, <<PathSB, "object", <<>>>>,
             <<PathZIndex, "object", <<>>>>}
\* /b$2 has the main "m", and so has /b$2/m; the main of /z is empty
TailMains == {<<PathB2, <<"m">>>>, <<PathB2Main, <<"m">>>>, <<PathZ, <<>>>>}
\* a chain /z -> /b$2 -> /s/b, and /b$2/m -> /z back into it
TailRemaps == {<<PathZ, PathB2>>, <<PathB2, PathSB>>, <<PathB2Main, PathZ>>}
TailTargets == {PathZ, PathB2, PathZJs}

TailDefine == Define(TailDefs)
TailMain == MainOf(TailMains)
TailRemap == RemapOf(TailRemaps)
TailResolve == ResolveOf(TailTargets, {<<"/">>})

NextTail ==
    \/ TailDefine
    \/ TailMain
    \/ TailRemap
    \/ TailResolve

\* absolute targets resolved against registered mains, remaps and definitions
SpecTail == Init /\ [][NextTail]_vars

\* the path after the one main substitution, and after the one remap
AfterOneMain(path) ==
    IF path \in DOMAIN mains
    THEN path \o <<"/">> \o (IF mains[path] = <<>> THEN <<"i", "n", "d", "e", "x">>
                           ELSE mains[path])
    ELSE path
AfterOneRemap(path) == IF path \in DOMAIN remapped THEN remapped[path] ELSE path
Stripped(path) ==
    IF \E i \in 1..Len(path) : path[i] = "." /\ \A j \in i..Len(path) : path[j] # "/"
    THEN SubSeq(path, 1, (CHOOSE i \in 1..Len(path) :
                              /\ path[i] = "."
                              /\ \A j \in (i + 1)..Len(path) : path[j] \notin {".", "/"}) - 1)
    ELSE Undefined

\* C13: resolve takes the candidate path through one main substitution (an
\* empty main is "index"), then one remap substitution, then looks the path
\* up, then looks it up once more without its extension; the main and the
\* remap tables are not consulted again for the substituted or stripped path.
C13_TailStepsOnce ==
    resolution.op = "resolve"
        => LET path == AfterOneRemap(AfterOneMain(resolution.target))
           IN  IF path \in DOMAIN definitions
               THEN resolution.found /\ resolution.path = path
               ELSE IF Stripped(path) \in DOMAIN definitions
               THEN resolution.found /\ resolution.path = Stripped(path)
               ELSE ~resolution.found

\* /z was resolved with the chain /z -> /b$2 -> /s/b registered and both
\* ends defined, and with a main registered for /b$2: /b$2 came out
C13_Witness ==
    /\ resolution.op = "resolve" /\ resolution.target = PathZ
    /\ PathZ \in DOMAIN remapped /\ PathB2 \in DOMAIN remapped
    /\ PathB2 \in DOMAIN mains
    /\ PathSB \in DOMAIN definitions /\ PathB2Main \in DOMAIN definitions
    /\ resolution.found /\ resolution.path = PathB2

(***************************************************************************)
(* Modules mapped to globals and the exposed instance cache (SpecGlobals)  *)
(***************************************************************************)

\* Module objects created
MaxModules == 3

GlobalDefs == {<<PathA, "function", <<"g">>>>}

\* delete require.cache[path]
clearCache(s, path) ==
    [s EXCEPT !.instanceCache = [p \in DOMAIN @ \ {path} |-> @[p]]]

\* code that was given a require, and with it require.cache, deletes an entry
ClearCache ==
    /\ CanCall
    /\ factoryCalls # EmptyMap
    /\ Len(modules) < MaxModules
    /\ \E path \in DOMAIN instanceCache :
          Commit(SettlePlain(S, clearCache(S, path), "clearCache", path))

GlobalsDefine == Define(GlobalDefs)
GlobalsRequire == RequireOf({PathA})
GlobalsInstanceRequire == InstanceRequireOf({<<".", "/", "a">>})

NextGlobals ==
    \/ GlobalsDefine
    \/ GlobalsRequire
    \/ GlobalsInstanceRequire
    \/ ClearCache
    \/ Return
    \/ Throw
    \/ Catch

\* /p/a is defined with a global, required, and removed from require.cache
SpecGlobals == Init /\ [][NextGlobals]_vars

\* a define call is waiting for the factory it invoked
DefineInProgress == \E i \in 1..Len(stack) :
                        stack[i].kind = "factory" /\ stack[i].k.op = "define"

U == [updatesScheduled |-> updatesScheduled, batchStack |-> batchStack,
      unbatchedQueue |-> unbatchedQueue, immediates |-> immediates,
      components |-> components, frames |-> frames,
      componentLookup |-> componentLookup, emitter |-> emitter,
      log |-> [updateLog EXCEPT !.pass = NoPass, !.call = "none"]]

CommitScheduler(u) ==
    /\ updatesScheduled' = u.updatesScheduled
    /\ batchStack' = u.batchStack
    /\ unbatchedQueue' = u.unbatchedQueue
    /\ immediates' = u.immediates
    /\ components' = u.components
    /\ frames' = u.frames
    /\ updateLog' = u.log
    /\ componentLookup' = u.componentLookup
    /\ emitter' = u.emitter
    /\ UNCHANGED loaderVars
    /\ UNCHANGED resolution
    /\ UNCHANGED domVars

\* a call of the update manager in progress: the loop of updateComponents
\* over the unbatched queue ("flush") or over the pending list of the batch
\* that component's re-render opened ("batchEnd", thrown: the re-render
\* raised an error that is waiting for the loop to end), i the number of
\* entries whose update has returned; or code of the page running inside a
\* component's update: its update_<key> handlers ("handlers") or its
\* re-render ("render")
Frame(kind, i, component, thrown) ==
    [kind |-> kind, i |-> i, component |-> component, thrown |-> thrown]

TopFrame(u) == u.frames[Len(u.frames)]
PushFrame(u, f) == [u EXCEPT !.frames = Append(@, f)]
PopFrame(u) == [u EXCEPT !.frames = SubSeq(@, 1, Len(@) - 1)]

\* a flush of the unbatched queue is running
Flushing(u) == Len(u.frames) > 0 /\ u.frames[1].kind = "flush"

\* scheduleUpdates()
scheduleUpdates(u) ==
    IF u.updatesScheduled
    THEN u
    ELSE [u EXCEPT !.updatesScheduled = TRUE,
                   !.immediates = @ + 1,
                   !.log.nextTicks = @ + 1]

\* a faulty variant: the batch stack is ignored
queueComponentUpdate_Unbatched(u, component) ==
    LET Pushed(v) == [v EXCEPT !.unbatchedQueue = Append(@, component),
                               !.log.waiting = @ \cup {component},
                               !.log.appended = IF Flushing(v)
                                                THEN Append(@, component) ELSE @]
    IN  Pushed(scheduleUpdates(u))

\* queueComponentUpdate(component); the log notes that the component waits
\* for its update, and where it was put while a flush is running
queueComponentUpdate(u, component) ==
    LET Pushed(v) == [v EXCEPT !.unbatchedQueue = Append(@, component),
                               !.log.waiting = @ \cup {component},
                               !.log.appended = IF Flushing(v)
                                                THEN Append(@, component) ELSE @]
    IN  IF Len(u.batchStack) > 0
        THEN [u EXCEPT !.batchStack[Len(u.batchStack)].aB_ = Append(@, component),
                       !.log.waiting = @ \cup {component},
                       !.log.joined = Append(@, component)]
        ELSE Pushed(scheduleUpdates(u))

\* component._e_()
_e_(u, c) ==
    IF u.components[c].U_
    THEN u
    ELSE queueComponentUpdate([u EXCEPT !.components[c].U_ = TRUE], c)

\* a faulty variant: the old state map is not copied before it is written
_f__NoCopy(u, c, name, value) ==
    LET state == u.components[c].J_
        Store(v) == [v EXCEPT !.components[c].J_._k_ = Put(@, name, value),
                              !.components[c].J_._u_[name] = value,
                              !.components[c].J_._l_[name] = value]
        FirstChange == [u EXCEPT !.components[c].J_.V_ = TRUE,
                                 !.components[c].J_._l_ = state._u_,
                                 !.components[c].J_._k_ = EmptyMap]
    IN  IF state._u_[name] = value
        THEN u
        ELSE IF ~state.V_ THEN Store(_e_(FirstChange, c)) ELSE Store(u)

\* state._f_(name, value, true, false) of the State of component c
_f_(u, c, name, value) ==
    LET state == u.components[c].J_
        Store(v) == [v EXCEPT !.components[c].J_._k_ = Put(@, name, value),
                              !.components[c].J_._u_[name] = value]
        FirstChange == [u EXCEPT !.components[c].J_.V_ = TRUE,
                                 !.components[c].J_._l_ = state._u_,
                                 !.components[c].J_._k_ = EmptyMap]
    IN  IF state._u_[name] = value
        THEN u
        ELSE IF ~state.V_ THEN Store(_e_(FirstChange, c)) ELSE Store(u)

\* component.setState(name, value)
setState(u, c, name, value) == _f_(u, c, name, value)

\* component.forceUpdate()
forceUpdate(u, c) == _e_([u EXCEPT !.components[c].V_ = TRUE], c)

\* state.I_()
State_I_(state) == [state EXCEPT !.V_ = FALSE, !._l_ = EmptyMap, !._k_ = EmptyMap]

\* component.I_(): the component is clean and may be queued again; the log
\* keeps the state map this commit leaves
I_(u, c) == [u EXCEPT !.components[c].V_ = FALSE,
                      !.components[c].U_ = FALSE,
                      !.components[c].J_ = State_I_(@),
                      !.log.committed[c] = u.components[c].J_._u_,
                      !.log.touched[c] = {}]

\* the getter component._j_
_j_(component) == component.V_ \/ component.J_.V_

\* the update call of the entry the loop on top is at has returned
Returned(u) == [u EXCEPT !.frames[Len(u.frames)].i = @ + 1]

\* batchUpdate(func) as far as the call of func, for the re-render of c
batchUpdate(u, c) ==
    PushFrame([u EXCEPT !.batchStack = Append(@, [aB_ |-> <<>>])],
              Frame("render", 0, c, FALSE))

\* component._m_() as far as the call of the renderer
_m_(u, c) == batchUpdate(u, c)

\* processUpdateHandlers finds an update_<key> handler for every changed key
AllHandled(state) == DOMAIN state._k_ \subseteq HandledKeys

\* a faulty variant: the handlers are used also when the component itself
\* is marked dirty
update_HandlersWhenDirty(u, c) ==
    LET component == u.components[c]
    IN  IF component.T_ \/ ~_j_(component)
        THEN Returned(u)
        ELSE IF component.J_.V_ /\ AllHandled(component.J_)
             THEN PushFrame(u, Frame("handlers", 0, c, FALSE))
             ELSE _m_(u, c)

\* component.update() (_w_), as far as the first code of the page it calls
update(u, c) ==
    LET component == u.components[c]
    IN  IF component.T_ \/ ~_j_(component)
        THEN Returned(u)
        ELSE IF ~component.V_ /\ component.J_.V_ /\ AllHandled(component.J_)
             THEN PushFrame(u, Frame("handlers", 0, c, FALSE))
             ELSE _m_(u, c)

\* the rest of update() once the handlers of c have run: each was given the
\* new value of its key, which it wrote to the DOM, and the old one;
\* "update" is emitted, I_() is called by processUpdateHandlers and again
\* by update
AfterHandlers(u, c) ==
    LET changes == u.components[c].J_._k_
        oldState == u.components[c].J_._l_
        Shown(v) == [v EXCEPT !.components[c].dom =
                        [k \in Keys |-> IF k \in DOMAIN changes
                                        THEN changes[k] ELSE @[k]],
                              !.log.pass =
                                  [component |-> c,
                                   handlers |-> {<<k, changes[k], oldState[k]>> :
                                                    k \in DOMAIN changes},
                                   renders |-> 0, events |-> 1],
                              !.log.calls[c] = 0,
                              !.log.mixed[c] = FALSE]
    IN  Returned(I_(I_(Shown(PopFrame(u)), c), c))

\* the rest of _m_() and update() once batchUpdate has returned
AfterBatch(u, c) ==
    Returned(I_(I_([u EXCEPT !.log.calls[c] = 0, !.log.mixed[c] = FALSE], c), c))

\* an error leaves the update call of the entry the loop on top is at: the
\* flush resets the flag in its finally block and leaves the queue as it
\* is; a batch is removed from the stack with what is left of its pending
\* list, and the error leaves the re-render that opened it
RECURSIVE Propagate(_)
Propagate(u) ==
    IF u.frames = <<>>
    THEN u
    ELSE IF TopFrame(u).kind = "flush"
         THEN PopFrame([u EXCEPT !.updatesScheduled = FALSE])
         ELSE Propagate(PopFrame([u EXCEPT !.batchStack =
                                       SubSeq(@, 1, Len(@) - 1)]))

\* the finally blocks of batchUpdate once func is over (thrown: with an error)
EndBatch(u, c, thrown) ==
    LET Unbatched(v) == PopFrame([v EXCEPT !.batchStack = SubSeq(@, 1, Len(@) - 1)])
    IN  IF u.batchStack[Len(u.batchStack)].aB_ # <<>>
        THEN PushFrame(PopFrame(u), Frame("batchEnd", 0, c, thrown))
        ELSE IF thrown THEN Propagate(Unbatched(u))
                       ELSE AfterBatch(Unbatched(u), c)

\* the renderer of c has built the new tree, the DOM shows the state and
\* initComponent has emitted "update"
Rendered(u, c) ==
    [u EXCEPT !.components[c].dom = u.components[c].J_._u_,
              !.components[c].shown = u.components[c].Q_,
              !.log.pass = [component |-> c, handlers |-> {},
                            renders |-> 1, events |-> 1]]

\* the queue the loop on top iterates
LoopQueue(u) ==
    IF TopFrame(u).kind = "flush"
    THEN u.unbatchedQueue
    ELSE u.batchStack[Len(u.batchStack)].aB_

InLoop(u) == Len(u.frames) > 0 /\ TopFrame(u).kind \in {"flush", "batchEnd"}

\* updateComponents(queue): the body of the loop for the next entry
LoopBody(u) ==
    LET c == LoopQueue(u)[TopFrame(u).i + 1]
        Noted == [u EXCEPT !.log.invoked = IF TopFrame(u).kind = "flush"
                                           THEN Append(@, c) ELSE @,
                           !.log.waiting = @ \ {c}]
    IN  update(Noted, c)

\* a faulty variant: the flush leaves the flag set
LoopExit_KeepFlag(u) ==
    LET top == TopFrame(u)
        Unbatched(v) == PopFrame([v EXCEPT !.batchStack = SubSeq(@, 1, Len(@) - 1)])
    IN  IF top.kind = "flush"
        THEN PopFrame([u EXCEPT !.unbatchedQueue = <<>>])
        ELSE IF top.thrown THEN Propagate(Unbatched(u))
                           ELSE AfterBatch(Unbatched(u), top.component)

\* updateComponents(queue) after the loop, and what its caller does next:
\* updateUnbatchedComponents resets the flag, batchUpdate removes its batch
LoopExit(u) ==
    LET top == TopFrame(u)
        Unbatched(v) == PopFrame([v EXCEPT !.batchStack = SubSeq(@, 1, Len(@) - 1)])
    IN  IF top.kind = "flush"
        THEN PopFrame([u EXCEPT !.unbatchedQueue = <<>>,
                                !.updatesScheduled = FALSE])
        ELSE IF top.thrown THEN Propagate(Unbatched(u))
                           ELSE AfterBatch(Unbatched(u), top.component)

\* updateUnbatchedComponents(), called by nextTick's timer
updateUnbatchedComponents(u) ==
    IF Len(u.unbatchedQueue) > 0
    THEN PushFrame([u EXCEPT !.log.atStart = u.unbatchedQueue,
                             !.log.appended = <<>>,
                             !.log.invoked = <<>>,
                             !.log.joined = <<>>],
                   Frame("flush", 0, "none", FALSE))
    ELSE u

\* the most calls the page makes, and the most errors its code raises
MaxUserCalls == 4
MaxErrors == 1

\* code of the page may call a component now: an event handler (nothing of
\* the update manager is running), or the handlers or the renderer of
\* another component
UserCode(c) ==
    /\ updateLog.userCalls < MaxUserCalls
    /\ IF frames = <<>>
       THEN TRUE
       ELSE /\ TopFrame(U).kind \in {"handlers", "render"}
            /\ TopFrame(U).component # c

Called(u) == [u EXCEPT !.log.userCalls = @ + 1]

\* component.setState(name, value); the log counts the calls of event
\* handlers that changed a value since the component was last updated, and
\* notes a change made by the code of another component's update
SetState ==
    \E c \in Components, name \in Keys, value \in Values :
        /\ UserCode(c)
        /\ LET Counted(u) ==
                 IF components[c].J_._u_[name] = value
                 THEN u
                 ELSE IF frames = <<>>
                      THEN [u EXCEPT !.log.calls[c] = @ + 1,
                                     !.log.touched[c] = @ \cup {name}]
                      ELSE [u EXCEPT !.log.mixed[c] = TRUE,
                                     !.log.touched[c] = @ \cup {name}]
           IN  CommitScheduler(Counted(Called(setState(U, c, name, value))))

\* component.forceUpdate()
ForceUpdate ==
    \E c \in Components :
        /\ UserCode(c)
        /\ CommitScheduler(Called(forceUpdate(U, c)))

\* the timer of nextTick fires: no code is running
Tick ==
    /\ frames = <<>>
    /\ immediates > 0
    /\ CommitScheduler(updateUnbatchedComponents([U EXCEPT !.immediates = @ - 1]))

\* the loop of updateComponents calls the update of its next entry
UpdateNext ==
    /\ InLoop(U)
    /\ TopFrame(U).i < Len(LoopQueue(U))
    /\ CommitScheduler(LoopBody(U))

\* the loop of updateComponents is over
LoopEnd ==
    /\ InLoop(U)
    /\ TopFrame(U).i = Len(LoopQueue(U))
    /\ CommitScheduler(LoopExit(U))

\* the update handlers of a component return
HandlersReturn ==
    /\ frames # <<>>
    /\ TopFrame(U).kind = "handlers"
    /\ CommitScheduler(AfterHandlers(U, TopFrame(U).component))

\* an update handler raises an error
HandlersThrow ==
    /\ frames # <<>>
    /\ TopFrame(U).kind = "handlers"
    /\ updateLog.errors < MaxErrors
    /\ CommitScheduler(Propagate(PopFrame([U EXCEPT !.log.errors = @ + 1])))

\* the re-render of a component is done
RenderReturns ==
    /\ frames # <<>>
    /\ TopFrame(U).kind = "render"
    /\ CommitScheduler(EndBatch(Rendered(U, TopFrame(U).component),
                                TopFrame(U).component, FALSE))

\* the renderer of a component raises an error
RenderThrows ==
    /\ frames # <<>>
    /\ TopFrame(U).kind = "render"
    /\ updateLog.errors < MaxErrors
    /\ CommitScheduler(EndBatch([U EXCEPT !.log.errors = @ + 1],
                                TopFrame(U).component, TRUE))

NextUpdate ==
    \/ SetState
    \/ ForceUpdate
    \/ Tick
    \/ UpdateNext
    \/ LoopEnd
    \/ HandlersReturn
    \/ HandlersThrow
    \/ RenderReturns
    \/ RenderThrows

\* event handlers change the state of two components, whose update handlers
\* and renderers change the state of the other and may raise an error
SpecUpdate == Init /\ [][NextUpdate]_vars

(***************************************************************************)
(* Claims about the update scheduler                                       *)
(***************************************************************************)

\* the number of entries of queue q that are component c
Occurrences(q, c) == Cardinality({i \in 1..Len(q) : q[i] = c})

\* event handlers, and no other code, have changed the state of c at least
\* twice since c was last updated
SetTwice(c) == updateLog.calls[c] >= 2 /\ ~updateLog.mixed[c]

\* an update pass of c is completed by this step
PassOf(c) == updateLog.calls[c] > 0 /\ updateLog'.calls[c] = 0

\* C17 as stated: when event handlers have called setState of one component
\* two or more times, each call changing a value, with no batch active, the
\* component is in the unbatched queue once and a deferred flush is
\* outstanding; the update pass of that flush leaves the DOM showing the
\* final state values and the component clean, so that no second pass
\* follows.
C17_CoalescedSetState ==
    /\ [](\A c \in Components :
            (frames = <<>> /\ SetTwice(c))
                => /\ Occurrences(unbatchedQueue, c) = 1
                   /\ immediates = 1)
    /\ [][\A c \in Components :
            (SetTwice(c) /\ PassOf(c))
                => /\ Flushing(U)
                   /\ components'[c].dom = components'[c].J_._u_
                   /\ ~_j_(components'[c])
                   /\ ~components'[c].U_ ]_vars

\* C18 as stated: at most one callback of the deferred flush is outstanding;
\* nextTick is called only when none is outstanding and no flush is running,
\* however many components are made dirty; and whenever the unbatched queue
\* is not empty and no flush is running, a flush is scheduled.
C18_OneFlushOutstanding ==
    /\ [](immediates <= 1)
    /\ [][updateLog'.nextTicks # updateLog.nextTicks
            => immediates = 0 /\ ~Flushing(U)]_vars
    /\ []((Len(unbatchedQueue) > 0 /\ ~Flushing(U))
            => (updatesScheduled /\ immediates = 1))

\* the deferred flush returns by this step: the loop over the unbatched
\* queue is over
FlushReturns == Len(frames) = 1 /\ frames[1].kind = "flush" /\ frames' = <<>>

Elements(q) == {q[i] : i \in 1..Len(q)}

\* this step puts component c in a queue
Queues(c) == ~components[c].U_ /\ components'[c].U_

\* batchUpdate returns by this step: its batch leaves the stack and no
\* error is under way
BatchReturns ==
    /\ Len(batchStack') < Len(batchStack)
    /\ updateLog'.errors = updateLog.errors
    /\ ~TopFrame(U).thrown

\* the pending list of the innermost batch
TopBatch == batchStack[Len(batchStack)].aB_

\* a component made dirty while a batch is active joins the innermost
\* batch, and no flush is asked for
JoinsBatch(c) ==
    /\ batchStack'[Len(batchStack)].aB_ = Append(TopBatch, c)
    /\ unbatchedQueue' = unbatchedQueue
    /\ immediates' = immediates

\* when batchUpdate returns, every component of its pending list has been
\* updated
BatchUpdated == \A c \in Elements(TopBatch) : c \notin updateLog'.waiting

\* C20 as stated: a component made dirty by the code of another component's
\* update joins the innermost batch when one is active, and is updated
\* before that batchUpdate call returns; made dirty when no batch is active
\* (by an update handler the deferred flush runs), it is not updated by the
\* flush in progress: when the flush returns it still waits in the
\* unbatched queue for a flush of the next tick.
C20_JoinsBatchOrNextTick ==
    [][ /\ \A c \in Components :
              (Queues(c) /\ frames # <<>> /\ batchStack # <<>>) => JoinsBatch(c)
        /\ BatchReturns => BatchUpdated
        /\ FlushReturns
              => \A c \in Elements(updateLog.appended) :
                    /\ c \in updateLog'.waiting
                    /\ c \in Elements(unbatchedQueue')
                    /\ updatesScheduled' /\ immediates' = 1 ]_vars

\* C20 (amended): with a batch active the component joins the innermost
\* batch and is updated before that batchUpdate call returns; with no batch
\* active it is appended to the unbatched queue the flush is iterating,
\* nextTick is not called, and the same flush updates it: when the flush
\* returns it waits no more and nothing is scheduled for the next tick.
C20_JoinsBatchOrSamePass ==
    [][ /\ \A c \in Components :
              /\ (Queues(c) /\ frames # <<>> /\ batchStack # <<>>) => JoinsBatch(c)
              /\ (Queues(c) /\ frames # <<>> /\ batchStack = <<>>)
                    => /\ unbatchedQueue' = Append(unbatchedQueue, c)
                       /\ Flushing(U)
                       /\ updateLog'.nextTicks = updateLog.nextTicks
        /\ BatchReturns => BatchUpdated
        /\ FlushReturns
              => /\ \A c \in Elements(updateLog.appended) :
                       /\ c \notin updateLog'.waiting
                       /\ c \in Elements(updateLog.invoked)
                 /\ immediates' = 0 ]_vars

\* a flush has finished in which one component was made dirty by an update
\* handler while no batch was active and another by a re-render, and both
\* have been updated
C20_Witness ==
    /\ frames = <<>>
    /\ updateLog.errors = 0
    /\ Len(updateLog.appended) = 1
    /\ Len(updateLog.joined) = 1
    /\ updateLog.waiting = {}
    /\ immediates = 0

\* an update of a component has run its handlers or its renderer by this step
Updates(c) == updateLog'.pass.component = c

\* the handler calls that the changes recorded in a State ask for
HandlerCalls(state) ==
    {<<k, state._k_[k], state._l_[k]>> : k \in DOMAIN state._k_}

\* the update ran the handlers and nothing else
HandlersOnly(c) ==
    /\ updateLog'.pass.handlers = HandlerCalls(components[c].J_)
    /\ updateLog'.pass.events = 1
    /\ updateLog'.pass.renders = 0

\* the update re-rendered and ran no handler
RenderOnly == updateLog'.pass.handlers = {} /\ updateLog'.pass.renders = 1

\* C21 as stated: when an update finds a handler for every changed state
\* key, it calls those handlers, each with the new and the old value of its
\* key, emits one "update" event and does not re-render; when a changed key
\* has no handler it calls no handler and re-renders.
C21_HandlersOrRender ==
    [][\A c \in Components :
          Updates(c) => IF /\ components[c].J_.V_
                           /\ AllHandled(components[c].J_)
                        THEN HandlersOnly(c)
                        ELSE RenderOnly ]_vars

\* C21 (amended): the handlers are used only when, besides, the component
\* itself is not marked dirty (no forceUpdate, no changed input) and its
\* state is; an update of a component that is marked dirty re-renders and
\* calls no handler, whatever the changed keys.
C21_HandlersUnlessDirty ==
    [][\A c \in Components :
          Updates(c) => IF /\ ~components[c].V_
                           /\ components[c].J_.V_
                           /\ AllHandled(components[c].J_)
                        THEN HandlersOnly(c)
                        ELSE RenderOnly ]_vars

\* the handler of x of a component has been called with the new value 1
\* and the old value 0, and nothing was rendered
C21_Witness ==
    /\ updateLog.pass.component \in Components
    /\ updateLog.pass.handlers = {<<"x", 1, 0>>}
    /\ updateLog.pass.renders = 0
    /\ updateLog.pass.events = 1

\* a component that was marked dirty by forceUpdate and whose only changed
\* key has a handler has been re-rendered
C21_WitnessDirty ==
    /\ updateLog.pass.component \in Components
    /\ updateLog.pass.renders = 1
    /\ \E c \in Components :
          /\ updateLog.pass.component = c
          /\ components[c].V_
          /\ components[c].J_.V_
          /\ DOMAIN components[c].J_._k_ = {"x"}

\* the keys of component c whose value differs from the value they had at
\* the last commit
Differing(c) ==
    {k \in Keys : components[c].J_._u_[k] # updateLog.committed[c][k]}

\* C22 as stated: while the state of a component is dirty, the recorded
\* change set holds exactly the keys whose current value differs from their
\* value at the last commit, and the old-state snapshot is the state map of
\* the last commit.
C22_ChangeSetIsDifference ==
    \A c \in Components :
        components[c].J_.V_
            => /\ DOMAIN components[c].J_._k_ = Differing(c)
               /\ components[c].J_._l_ = updateLog.committed[c]

\* C22 (amended): the change set holds exactly the keys to which a setState
\* call since the last commit gave a value other than the stored one, each
\* with its current value; it includes every key whose value differs from
\* the last commit, and also a key that was changed and then set back.  The
\* old-state snapshot is the state map of the last commit, and a clean
\* state has neither a change set nor a snapshot.
C22_ChangeSetIsKeysSet ==
    \A c \in Components :
        LET state == components[c].J_
        IN  IF state.V_
            THEN /\ DOMAIN state._k_ = updateLog.touched[c]
                 /\ \A k \in DOMAIN state._k_ : state._k_[k] = state._u_[k]
                 /\ Differing(c) \subseteq DOMAIN state._k_
                 /\ state._l_ = updateLog.committed[c]
            ELSE /\ state._k_ = EmptyMap
                 /\ state._l_ = EmptyMap
                 /\ state._u_ = updateLog.committed[c]

\* a key was changed and set back while another still differs: the change
\* set holds both, the snapshot is the committed map
C22_Witness ==
    \E c \in Components :
        /\ components[c].J_.V_
        /\ DOMAIN components[c].J_._k_ = {"x", "y"}
        /\ Differing(c) = {"y"}
        /\ components[c].J_._l_ = updateLog.committed[c]

\* ---------------------------------------------------------------------
\* The life cycle of a component: initComponent, destroy, and the
\* subscriptions a component makes through its listener tracker.
\* Component A renders component B inside its own nodes.
\* ---------------------------------------------------------------------

\* the components whose root fragment lies inside the nodes of c
ChildrenOf(c) == IF c = "A" THEN <<"B">> ELSE <<>>

\* EventEmitter.prototype.removeListener
removeListener(e, type, l) ==
    [e EXCEPT ![type] = SelectSeq(@, LAMBDA x : x # l)]

\* SubscriptionTracker.removeAllListeners(): every entry of the wrapper is
\* detached from the target by its user listener, last entry first
removeAllListeners(u, c) ==
    LET listeners == u.components[c].L_
        RECURSIVE Detach(_, _)
        Detach(e, i) ==
            IF i = 0 THEN e
            ELSE Detach(removeListener(e, listeners[i].event,
                                       listeners[i].listener), i - 1)
    IN  [u EXCEPT !.emitter = Detach(u.emitter, Len(listeners)),
                  !.components[c].L_ = <<>>]

\* the rest of component.___() once the "destroy" listeners have returned:
\* the flag is set, the entry of the root fragment in componentsByDOMNode
\* is cleared (a TypeError when the fragment reference is already null,
\* which unwinds every caller), the subscriptions are removed
Destroyed(u, c) ==
    IF ~u.components[c].K_
    THEN [u EXCEPT !.components[c].T_ = TRUE,
                   !.frames = <<>>,
                   !.log.typeErrors = @ + 1]
    ELSE removeAllListeners(
             [u EXCEPT !.components[c].T_ = TRUE,
                       !.components[c].byNode = FALSE,
                       !.components[c].K_ = FALSE], c)

\* emitLifecycleEvent(component, "destroy") at the start of ___(): the
\* listeners run in a frame of their own
EmitDestroy(u, c, kind) ==
    PushFrame([u EXCEPT !.log.events[c] = Append(@, "destroy")],
              Frame(kind, 0, c, FALSE))

\* destroy() after ___(): destroyNodeRecursive over the nodes of c from the
\* i-th nested component on, then the nodes are removed from their parent
\* and the component leaves componentLookup
RECURSIVE DestroyNodes(_, _, _)
DestroyNodes(u, c, i) ==
    IF i > Len(ChildrenOf(c))
    THEN PopFrame([u EXCEPT !.components[c].attached = FALSE,
                            !.componentLookup = @ \ {c}])
    ELSE LET child == ChildrenOf(c)[i]
         IN  IF u.components[child].attached /\ u.components[child].byNode
             THEN IF u.components[child].T_
                  THEN DestroyNodes([u EXCEPT !.componentLookup = @ \ {child}],
                                    c, i + 1)
                  ELSE EmitDestroy(
                           [u EXCEPT !.frames[Len(u.frames)] =
                                          Frame("walk", i, c, FALSE)],
                           child, "shallow")
             ELSE DestroyNodes(u, c, i + 1)

\* the bound on the calls of destroy(), on the subscriptions, on the events
\* the target emits and on the initializations of the components
MaxDestroys == 2
MaxSubscriptions == 1
MaxEmits == 1
MaxInits == 2

\* the code that runs at the top level or in a "destroy" listener
ListenerCode ==
    IF frames = <<>> THEN TRUE
    ELSE TopFrame(U).kind \in {"destroy", "shallow"}

\* component.destroy()
Destroy ==
    \E c \in Components :
        /\ ListenerCode
        /\ updateLog.userCalls < MaxDestroys
        /\ LET u == [Called(U) EXCEPT !.log.call = c]
           IN  CommitScheduler(IF u.components[c].T_ THEN u
                               ELSE EmitDestroy(u, c, "destroy"))

\* the "destroy" listeners return to ___(), which returns to destroy() or
\* to destroyComponentForNode
ListenerReturns ==
    /\ frames # <<>>
    /\ TopFrame(U).kind \in {"destroy", "shallow"}
    /\ LET c == TopFrame(U).component
           u == Destroyed(U, c)
       IN  CommitScheduler(
               IF u.frames = <<>> THEN u
               ELSE IF TopFrame(U).kind = "destroy"
               THEN DestroyNodes(u, c, 1)
               ELSE LET v == PopFrame([u EXCEPT !.componentLookup = @ \ {c}])
                    IN  DestroyNodes(v, TopFrame(v).component,
                                     TopFrame(v).i + 1))

\* component.subscribeTo(target).on(type, listener)
SubscribeOn ==
    \E c \in Components, type \in EventTypes :
        /\ frames = <<>>
        /\ ~components[c].T_
        /\ updateLog.subscriptions < MaxSubscriptions
        /\ CommitScheduler(
               [U EXCEPT !.emitter[type] = Append(@, <<c>>),
                         !.components[c].L_ =
                             Append(@, [event |-> type, listener |-> <<c>>,
                                        wrapped |-> <<>>]),
                         !.log.subscriptions = @ + 1])

\* component.subscribeTo(target).once(type, listener): the tracker wraps the
\* listener, and the target's once() wraps the tracker's wrapper again
SubscribeOnce ==
    \E c \in Components, type \in EventTypes :
        /\ frames = <<>>
        /\ ~components[c].T_
        /\ updateLog.subscriptions < MaxSubscriptions
        /\ LET wrappedListener == <<"w", updateLog.subscriptions, c>>
           IN  CommitScheduler(
                   [U EXCEPT !.emitter[type] =
                                 Append(@, <<"g">> \o wrappedListener),
                             !.components[c].L_ =
                                 Append(@, [event |-> type,
                                            listener |-> <<c>>,
                                            wrapped |-> wrappedListener]),
                             !.log.subscriptions = @ + 1])

\* invokeListener: g detaches itself and calls the tracker's wrapper, which
\* drops its entry from the tracker and calls the user's listener
invokeListener(u, type, l) ==
    LET c == l[Len(l)]
        heard == [u EXCEPT !.log.heard = Append(@, c)]
    IN  IF l[1] = "g"
        THEN LET wrappedListener == Tail(l)
                 v == [heard EXCEPT
                          !.emitter = removeListener(
                              removeListener(@, type, l),
                              type, wrappedListener),
                          !.components[c].L_ =
                              SelectSeq(@, LAMBDA cur :
                                  cur.wrapped # wrappedListener)]
             IN  v
        ELSE heard

\* target.emit(type): the listeners attached at the start are invoked
Emit ==
    \E type \in EventTypes :
        /\ frames = <<>>
        /\ updateLog.emits < MaxEmits
        /\ LET listeners == emitter[type]
               RECURSIVE Invoke(_, _)
               Invoke(u, i) ==
                   IF i > Len(listeners) THEN u
                   ELSE Invoke(invokeListener(u, type, listeners[i]), i + 1)
           IN  CommitScheduler(Invoke([U EXCEPT !.log.emits = @ + 1], 1))

\* a faulty variant: the component is not marked as mounted
initComponent_NotMarked(u, c) ==
    LET v == I_(u, c)
    IN  IF v.components[c].R_
        THEN [v EXCEPT !.log.events[c] = Append(@, "update")]
        ELSE [v EXCEPT !.log.events[c] = Append(@, "mount")]

\* initComponent(componentDef, doc)
initComponent(u, c) ==
    LET v == I_(u, c)
    IN  IF v.components[c].R_
        THEN [v EXCEPT !.log.events[c] = Append(@, "update")]
        ELSE [v EXCEPT !.components[c].R_ = TRUE,
                       !.log.events[c] = Append(@, "mount")]

\* a component is initialized after a render that produced or kept it
InitComponent ==
    \E c \in Components :
        /\ frames = <<>>
        /\ ~components[c].T_
        /\ updateLog.inits["A"] + updateLog.inits["B"] < MaxInits
        /\ CommitScheduler(
               initComponent([U EXCEPT !.log.inits[c] = @ + 1], c))

NextLifecycle ==
    \/ InitComponent
    \/ SubscribeOn
    \/ SubscribeOnce
    \/ Emit
    \/ Destroy
    \/ ListenerReturns

SpecLifecycle == Init /\ [][NextLifecycle]_vars

\* the number of times an event is in a sequence of events
Count(events, event) == Len(SelectSeq(events, LAMBDA e : e = event))

\* C23: destroy() is idempotent: a call on a component that has been
\* destroyed changes nothing, the "destroy" event of a component is emitted
\* at most once, and a destroyed component has no entry in componentLookup
\* once the calls have returned.
C23_DestroyIdempotent ==
    /\ [][\A c \in Components :
              (updateLog'.call = c /\ components[c].T_)
                  => /\ components' = components
                     /\ componentLookup' = componentLookup
                     /\ emitter' = emitter
                     /\ updateLog'.events = updateLog.events]_vars
    /\ [](\A c \in Components :
              /\ Count(updateLog.events[c], "destroy") <= 1
              /\ (components[c].T_ /\ frames = <<>>)
                     => c \notin componentLookup)

\* the listeners attached to the target that component c registered
Attached(c) ==
    {l \in UNION {Elements(emitter[type]) : type \in EventTypes} :
         l[Len(l)] = c}

\* C24: after a component is destroyed none of the listeners it registered
\* through its tracker, with on or with once, is attached to the target,
\* and an event the target emits afterwards invokes none of them.
C24_NoListenerAfterDestroy ==
    /\ [](\A c \in Components : components[c].T_ => Attached(c) = {})
    /\ [][\A c \in Components :
              components[c].T_
                  => Count(updateLog'.heard, c) = Count(updateLog.heard, c)]_vars

\* the initialization events of a component, in the order emitted
InitEvents(c) ==
    SelectSeq(updateLog.events[c], LAMBDA e : e \in {"mount", "update"})

\* C25: every initialization of a component emits one event: "mount" at
\* the first initialization, "update" at every later one.
C25_MountOnce ==
    \A c \in Components :
        /\ Len(InitEvents(c)) = updateLog.inits[c]
        /\ \A i \in 1..Len(InitEvents(c)) :
               InitEvents(c)[i] = IF i = 1 THEN "mount" ELSE "update"
        /\ components[c].R_ = (updateLog.inits[c] > 0)

\* a component was initialized twice
C25_Witness ==
    \E c \in Components :
        /\ updateLog.inits[c] = 2
        /\ InitEvents(c) = <<"mount", "update">>

\* ---------------------------------------------------------------------
\* morphdom: the children of one parent element are reconciled with the
\* children of a virtual node.  A key is a sequence of characters.  A live
\* node has an identity (its index in morph.nodes), its key in
\* keysByDOMNode, and for an element whether vElementByDOMNode has a
\* snapshot of it (v) and the key of that snapshot (vkey).
\* ---------------------------------------------------------------------

\* the id of the component being rendered and of the component whose
\* template passed the keyed content to it
ParentId == "P"
OwnerId == "O"

VNode(type, tag, key, value) ==
    [type |-> type, tag |-> tag, key |-> key, value |-> value]

\* the decimal digits of a number, as JavaScript's string conversion gives
DigitChars == <<"0", "1", "2", "3", "4", "5", "6", "7", "8", "9">>

RECURSIVE Digits(_)
Digits(n) ==
    IF n < 10 THEN <<DigitChars[n + 1]>>
    ELSE Digits(n \div 10) \o <<DigitChars[(n % 10) + 1]>>

\* a faulty variant: the index of the request is used as the suffix
c__FromOne(lookup, key) ==
    IF key \notin DOMAIN lookup
    THEN [_Q_ |-> Put(lookup, key, 1), key |-> key]
    ELSE [_Q_ |-> Put(lookup, key, lookup[key] + 1),
          key |-> key \o <<"_">> \o Digits(lookup[key] + 1)]

\* KeySequence.prototype.c_(key)
c_(lookup, key) ==
    IF key \notin DOMAIN lookup
    THEN [_Q_ |-> Put(lookup, key, 1), key |-> key]
    ELSE [_Q_ |-> Put(lookup, key, lookup[key] + 1),
          key |-> key \o <<"_">> \o Digits(lookup[key])]

\* helpers.nextSibling, 0 for null
nextSibling(dom, n) ==
    LET p == CHOOSE q \in 1..Len(dom) : dom[q] = n
    IN  IF p < Len(dom) THEN dom[p + 1] ELSE 0

firstChild(dom) == IF dom = <<>> THEN 0 ELSE dom[1]

Without(dom, n) == SelectSeq(dom, LAMBDA x : x # n)

\* parentNode.insertBefore(node, referenceNode)
InsertInto(dom, n, ref) ==
    LET rest == Without(dom, n)
    IN  IF ref = 0 THEN Append(rest, n)
        ELSE LET p == CHOOSE q \in 1..Len(rest) : rest[q] = ref
             IN  SubSeq(rest, 1, p - 1) \o <<n>> \o SubSeq(rest, p, Len(rest))

\* helpers.insertBefore of a node that exists
insertBefore(d, n, ref) ==
    [d EXCEPT !.dom = InsertInto(@, n, ref), !.moved = Append(@, n)]

\* helpers.insertAfter of a node that exists
insertAfter(d, n, ref) ==
    insertBefore(d, n, IF ref = 0 THEN 0 ELSE nextSibling(d.dom, ref))

\* a faulty variant: the mark of a detached node stays
Unmarked_Keep(d, n) == d

\* detachedByDOMNode.set(matchingFromEl, undefined)
Unmarked(d, n) == [d EXCEPT !.nodes[n].detached = "none"]

\* detachNode(node, parentNode, ownerComponent)
detachNode(d, n, owner) ==
    IF d.nodes[n].type = "el"
    THEN [d EXCEPT !.detachedNodes = Append(@, n),
                   !.nodes[n].detached = owner]
    ELSE [d EXCEPT !.dom = Without(@, n), !.removed = Append(@, n)]

\* morphEl: morphAttrs records the virtual element as the new snapshot
morphEl(d, n, vnode) ==
    [d EXCEPT !.nodes[n].v = TRUE, !.nodes[n].vkey = vnode.key]

\* insertVirtualNodeBefore(vNode, key, referenceEl, parentEl, ...)
insertVirtualNodeBefore(d, vnode, key, ref) ==
    LET n == Len(d.nodes) + 1
        isEl == vnode.type = "el"
        node == [type |-> vnode.type, tag |-> vnode.tag,
                 value |-> vnode.value,
                 key |-> IF isEl THEN key ELSE <<>>,
                 v |-> isEl, vkey |-> vnode.key, detached |-> "none"]
    IN  [d EXCEPT !.nodes = Append(@, node),
                  !.dom = InsertInto(@, n, ref),
                  !.m_ = IF isEl /\ key # <<>> THEN Put(@, key, n) ELSE @,
                  !.created = Append(@, n)]

\* toNextSibling.bv_ === curFromNodeKey, where the key of a live node that
\* has none is undefined, as is bv_ of a virtual text node, while bv_ of
\* an element without a key is null
NextKeyIs(vnext, fkey) ==
    IF fkey = <<>> THEN vnext.type = "text" ELSE vnext.key = fkey

RECURSIVE morphChildren(_, _, _, _, _, _, _)
RECURSIVE Unkeyed(_, _, _, _, _, _, _)

\* one iteration of the outer loop for a virtual element that has a key
Keyed(d, V, i, from, fns0, fkey0, owner) ==
    LET vnode == V[i]
        scoped == IF owner # ParentId THEN vnode.key \o <<":", owner>>
                  ELSE vnode.key
        r == c_(d.Q, scoped)
        key == r.key
        d1 == [d EXCEPT !.Q = r._Q_]
        fkey == IF from # 0 THEN d.nodes[from].key ELSE <<>>
        fns == IF from # 0 THEN nextSibling(d.dom, from) ELSE fns0
        Continue(d2, next) == morphChildren(d2, V, i + 1, next, next, fkey, owner)
        Detached(d2) == IF from # 0 THEN detachNode(d2, from, owner) ELSE d2
    IN  IF fkey = key
        THEN IF d.nodes[from].tag = vnode.tag
             THEN Continue(morphEl(d1, from, vnode), fns)
             ELSE Continue(insertVirtualNodeBefore(
                               detachNode(d1, from, owner), vnode, key, from),
                           fns)
        ELSE IF key \notin DOMAIN d.m_
        THEN Continue(insertVirtualNodeBefore(d1, vnode, key, from), from)
        ELSE LET matchingFromEl == d.m_[key]
                 d2 == Unmarked(d1, matchingFromEl)
             IN  IF d.nodes[matchingFromEl].tag = vnode.tag
                 THEN IF fns = matchingFromEl
                      THEN IF i < Len(V) /\ NextKeyIs(V[i + 1], fkey)
                           THEN Continue(
                                    morphEl(insertBefore(d2, matchingFromEl, from),
                                            matchingFromEl, vnode),
                                    from)
                           ELSE Continue(
                                    morphEl(Detached(d2), matchingFromEl, vnode),
                                    nextSibling(d.dom, fns))
                      ELSE Continue(
                               morphEl(Detached(insertAfter(d2, matchingFromEl,
                                                            from)),
                                       matchingFromEl, vnode),
                               fns)
                 ELSE Continue(
                          detachNode(insertVirtualNodeBefore(d2, vnode, key, from),
                                     matchingFromEl, owner),
                          fns)

\* the inner loop for a virtual node without a key: the live nodes from
\* the current one on are tried in turn
Unkeyed(d, V, i, from, fns, fkey, owner) ==
    LET vnode == V[i]
        Continue(d2, next, k) == morphChildren(d2, V, i + 1, next, next, k, owner)
    IN  IF from = 0
        THEN Continue(insertVirtualNodeBefore(d, vnode, <<>>, 0), fns, fkey)
        ELSE LET next == nextSibling(d.dom, from)
                 node == d.nodes[from]
             IN  IF node.type # vnode.type
                 THEN Unkeyed(detachNode(d, from, owner), V, i, next, next,
                              fkey, owner)
                 ELSE IF node.type = "text"
                 THEN Continue([d EXCEPT !.nodes[from].value = vnode.value],
                               next, fkey)
                 ELSE IF ~node.v
                 THEN Unkeyed(d, V, i, next, next, fkey, owner)
                 ELSE IF node.vkey = <<>> /\ node.tag = vnode.tag
                 THEN Continue(morphEl(d, from, vnode), next, node.vkey)
                 ELSE Unkeyed(detachNode(d, from, owner), V, i, next, next,
                              node.vkey, owner)

\* a faulty variant: the live nodes that are left stay where they are
Leftover_Keep(d, from) == d

\* the loop over the live nodes left when the virtual nodes are used up
RECURSIVE Leftover(_, _)
Leftover(d, from) ==
    IF from = 0 THEN d
    ELSE Leftover(detachNode(d, from, ParentId), nextSibling(d.dom, from))

\* morphChildren(fromNode, toNode, parentComponent) from the i-th virtual
\* child on; from is curFromNodeChild, fns and fkey the values that
\* fromNextSibling and curFromNodeKey hold from the iteration before
morphChildren(d, V, i, from, fns, fkey, owner) ==
    IF i > Len(V) THEN Leftover(d, from)
    ELSE IF V[i].key # <<>> THEN Keyed(d, V, i, from, fns, fkey, owner)
    ELSE Unkeyed(d, V, i, from, fns, fkey, owner)

\* delete component.m_[key]
Deleted(map, key) == [k \in (DOMAIN map) \ {key} |-> map[k]]

\* a faulty variant: every node that was detached is removed, marked or not
RECURSIVE detachedNodesForEach_All(_, _)
detachedNodesForEach_All(d, j) ==
    IF j > Len(d.detachedNodes) THEN d
    ELSE LET n == d.detachedNodes[j]
         IN  detachedNodesForEach_All(
                 [d EXCEPT !.nodes[n].detached = "none",
                           !.dom = Without(@, n),
                           !.removed = Append(@, n)],
                 j + 1)

\* detachedNodes.forEach: a node that is still marked is destroyed and
\* removed; destroyNodeRecursive drops it from the keyed elements of the
\* component it was detached for
RECURSIVE detachedNodesForEach(_, _)
detachedNodesForEach(d, j) ==
    IF j > Len(d.detachedNodes) THEN d
    ELSE LET n == d.detachedNodes[j]
             by == d.nodes[n].detached
             key == d.nodes[n].key
             d1 == [d EXCEPT !.nodes[n].detached = "none"]
         IN  IF by = "none" \/ n \notin Elements(d.dom)
             THEN detachedNodesForEach(d1, j + 1)
             ELSE detachedNodesForEach(
                      [d1 EXCEPT
                          !.m_ = IF /\ by = ParentId
                                    /\ key \in DOMAIN @
                                    /\ Get(@, key) = n
                                 THEN Deleted(@, key) ELSE @,
                          !.dom = Without(@, n),
                          !.removed = Append(@, n)],
                      j + 1)

\* morphdom(fromNode, toNode, doc, componentsContext)
morphdom(mor, V, owner) ==
    LET d == [dom |-> mor.dom, nodes |-> mor.nodes, m_ |-> mor.m_,
              detachedNodes |-> <<>>, Q |-> EmptyMap,
              moved |-> <<>>, created |-> <<>>, removed |-> <<>>]
        e == detachedNodesForEach(
                 morphChildren(d, V, 1, firstChild(d.dom), 0, <<>>, owner), 1)
    IN  [mor EXCEPT !.rendered = @ + 1, !.owner = owner,
                    !.before = mor.dom, !.to = V,
                    !.dom = e.dom, !.nodes = e.nodes, !.m_ = e.m_,
                    !.moved = e.moved, !.created = e.created,
                    !.removed = e.removed, !.detached = e.detachedNodes]

\* the bound on the children rendered first and on the children of the
\* re-render
MaxLive == 3
MaxVirtual == 2

\* the virtual children a template gives: elements with the keys a, b, c,
\* an element without a key, a text; the re-render may give b another tag
\* and the text another value; content passed in by another component
\* consists of keyed elements
KeyNames == {<<"a">>, <<"b">>, <<"c">>}

FirstChildren(owner) ==
    {VNode("el", "div", k, "") : k \in KeyNames}
        \cup (IF owner = ParentId
              THEN {VNode("el", "div", <<>>, ""), VNode("text", "", <<>>, "x")}
              ELSE {})

NextChildren(owner) ==
    {VNode("el", "div", k, "") : k \in KeyNames}
        \cup {VNode("el", "span", <<"b">>, "")}
        \cup (IF owner = ParentId
              THEN {VNode("el", "div", <<>>, ""), VNode("text", "", <<>>, "y")}
              ELSE {})

\* the lists of at most n children in which no key occurs twice
ChildLists(nodes, n) ==
    {V \in UNION {[1..k -> nodes] : k \in 0..n} :
         \A i, j \in 1..Len(V) :
             (i < j /\ V[i].key # <<>>) => V[i].key # V[j].key}

\* the first render of the parent, into an element without children
Render ==
    /\ morph.rendered = 0
    /\ \E owner \in {ParentId, OwnerId} :
           \E V \in ChildLists(FirstChildren(owner), MaxLive) :
               morph' = morphdom(morph, V, owner)
    /\ UNCHANGED <<loaderVars, resolution, schedulerVars, keySequence, dispatch>>

\* an element the templates did not render, put among the children by
\* other code of the page, before the p-th child
WithForeign(mor, p) ==
    LET n == Len(mor.nodes) + 1
        node == [type |-> "el", tag |-> "div", value |-> "", key |-> <<>>,
                 v |-> FALSE, vkey |-> <<>>, detached |-> "none"]
    IN  [mor EXCEPT !.nodes = Append(@, node),
                    !.dom = SubSeq(@, 1, p - 1) \o <<n>> \o SubSeq(@, p, Len(@)),
                    !.foreign = n]

\* the parent is rendered again, possibly after other code has inserted an
\* element
Rerender ==
    /\ morph.rendered = 1
    /\ \E p \in 0..(Len(morph.dom) + 1) :
           \E V \in ChildLists(NextChildren(morph.owner), MaxVirtual) :
               morph' = morphdom(IF p = 0 THEN morph ELSE WithForeign(morph, p),
                                 V, morph.owner)
    /\ UNCHANGED <<loaderVars, resolution, schedulerVars, keySequence, dispatch>>

NextMorph ==
    \/ Render
    \/ Rerender

SpecMorph == Init /\ [][NextMorph]_vars

\* the key under which a virtual child is looked up and recorded
ResolvedKey(vnode, owner) ==
    IF vnode.key = <<>> THEN <<>>
    ELSE IF owner = ParentId THEN vnode.key
    ELSE vnode.key \o <<":", owner>>

\* the live children are the virtual children, one to one and in order
MatchesVirtual(mor) ==
    /\ Len(mor.dom) = Len(mor.to)
    /\ \A i \in 1..Len(mor.dom) :
           LET node == mor.nodes[mor.dom[i]]
               vnode == mor.to[i]
           IN  /\ node.type = vnode.type
               /\ node.tag = vnode.tag
               /\ node.value = vnode.value
               /\ node.key = ResolvedKey(vnode, mor.owner)

\* C26: after a reconcile the live children of the parent match the
\* virtual children one to one and in order: same length, same kind of
\* node, same tag name or text value, same resolved key.
C26_ChildrenMatchVirtual ==
    morph.rendered > 0 => MatchesVirtual(morph)

\* the keys of the live children before the last pass, and the resolved
\* keys of its virtual children
BeforeKeys == [i \in 1..Len(morph.before) |-> morph.nodes[morph.before[i]].key]
ToKeys == [i \in 1..Len(morph.to) |-> ResolvedKey(morph.to[i], morph.owner)]

\* the last pass was a re-render of keyed elements only, all of the tag
\* they had, with no element of other code among the live children
KeyedRerender ==
    /\ morph.rendered = 2
    /\ morph.foreign = 0
    /\ \A i \in 1..Len(BeforeKeys) : BeforeKeys[i] # <<>>
    /\ \A i \in 1..Len(morph.to) :
           morph.to[i].key # <<>> /\ morph.to[i].tag = "div"

\* the new list is the previous list with some keys removed
KeysRemoved ==
    /\ KeyedRerender
    /\ ToKeys = SelectSeq(BeforeKeys, LAMBDA k : k \in Elements(ToKeys))

\* the previous live nodes whose keys are kept, in their order
Kept ==
    SelectSeq(morph.before,
              LAMBDA n : morph.nodes[n].key \in Elements(ToKeys))

\* the kept nodes that come right after two or more removed nodes
AfterTwoRemoved ==
    SelectSeq(Kept,
              LAMBDA n :
                  LET p == CHOOSE q \in 1..Len(morph.before) :
                               morph.before[q] = n
                  IN  /\ p >= 3
                      /\ morph.before[p - 1] \notin Elements(Kept)
                      /\ morph.before[p - 2] \notin Elements(Kept))

\* exactly the nodes of the removed keys are detached, each once, and the
\* nodes of the kept keys are the live children, in their order
RemovedExactly ==
    /\ Elements(morph.removed) = Elements(morph.before) \ Elements(Kept)
    /\ Len(morph.removed) = Len(morph.before) - Len(Kept)
    /\ morph.created = <<>>
    /\ morph.dom = Kept

C28_SwapIsOneRelocation ==
    (/\ KeyedRerender
     /\ Len(BeforeKeys) = 2
     /\ ToKeys = <<BeforeKeys[2], BeforeKeys[1]>>)
        => /\ Len(morph.moved) = 1
           /\ morph.removed = <<>>
           /\ morph.created = <<>>
           /\ morph.dom = <<morph.before[2], morph.before[1]>>

\* two elements whose keys are qualified by the owner's id were swapped
C28_Witness ==
    /\ KeyedRerender
    /\ morph.owner = OwnerId
    /\ BeforeKeys = <<<<"a", ":", "O">>, <<"b", ":", "O">>>>
    /\ ToKeys = <<BeforeKeys[2], BeforeKeys[1]>>
    /\ morph.dom = <<morph.before[2], morph.before[1]>>

\* ---------------------------------------------------------------------
\* KeySequence: the keys one sequence gives out
\* ---------------------------------------------------------------------

MaxRequests == 5

\* the key names asked for; the last is what a second request for a gives
RequestKeys == {<<"a">>, <<"b">>, <<"a", "_", "1">>}

\* keySequence.c_(key)
NextKey ==
    /\ Len(keySequence.requested) < MaxRequests
    /\ \E key \in RequestKeys :
           LET r == c_(keySequence._Q_, key)
           IN  keySequence' = [_Q_ |-> r._Q_,
                               requested |-> Append(keySequence.requested, key),
                               returned |-> Append(keySequence.returned, r.key)]
    /\ UNCHANGED <<loaderVars, resolution, schedulerVars, morph, dispatch>>

SpecKeys == Init /\ [][NextKey]_vars

\* the number of requests for the key of the n-th request, up to it
RequestIndex(n) ==
    Cardinality({i \in 1..n :
                     keySequence.requested[i] = keySequence.requested[n]})

\* C29: the k-th request for a key name yields the name itself for k = 1
\* and the name followed by "_" and the decimal k - 1 for k > 1, whatever
\* other names were asked for in between.
C29_SuffixIsRequestIndex ==
    \A n \in 1..Len(keySequence.requested) :
        LET key == keySequence.requested[n]
            k == RequestIndex(n)
        IN  keySequence.returned[n] =
                IF k = 1 THEN key ELSE key \o <<"_", DigitChars[k]>>

\* a was asked for three times with b in between
C29_Witness ==
    /\ Len(keySequence.requested) = 4
    /\ keySequence.requested = <<<<"a">>, <<"b">>, <<"a">>, <<"a">>>>
    /\ keySequence.returned[4] = <<"a", "_", "2">>

\* ---------------------------------------------------------------------
\* Event delegation: the listener on the body walks from the target of an
\* event up to the outermost element
\* ---------------------------------------------------------------------

MaxEvents == 2

\* the bindings a template can put on an element: the component (Z has no
\* entry in componentLookup), whether the binding is for once, and whether
\* the method calls event.stopPropagation()
Bindings ==
    {[bound |-> TRUE, component |-> c, once |-> o, stops |-> st,
      again |-> FALSE] :
         c \in {"A"}, o \in BOOLEAN, st \in BOOLEAN}
        \cup {[bound |-> TRUE, component |-> "Z", once |-> o, stops |-> FALSE,
               again |-> FALSE] :
                  o \in BOOLEAN}

\* a binding for once whose method, unless it runs inside such a dispatch
\* already, dispatches an event of the same type on its element
AgainBinding ==
    [bound |-> TRUE, component |-> "A", once |-> TRUE, stops |-> FALSE,
     again |-> TRUE]

RECURSIVE listener(_, _, _)
RECURSIVE delegateEvent(_, _, _, _)
RECURSIVE listener_NoBreak(_, _, _)

\* the method of the component runs: it may dispatch an event on its
\* element, which the listener handles with a flag of its own before the
\* method returns, and it may stop the propagation of its event
Invoked(d, n, target, nested) ==
    LET called == [d EXCEPT !.calls[n] = @ + 1,
                            !.invoked = IF nested THEN @ ELSE Append(@, n)]
        after == IF target.again /\ ~nested
                    THEN listener([called EXCEPT !.stopped = FALSE,
                                                 !.nested = @ + 1],
                                  n, TRUE)
                    ELSE called
    IN  [after EXCEPT !.stopped = target.stops]

\* a faulty variant: the entry of a binding for once is deleted after the
\* method has returned
delegateEvent_DeleteAfter(d, n, target, nested) ==
    IF target.component \notin componentLookup
    THEN IF target.once THEN [d EXCEPT !.props[n] = NoBinding] ELSE d
    ELSE LET e == Invoked(d, n, target, nested)
         IN  IF target.once THEN [e EXCEPT !.props[n] = NoBinding] ELSE e

\* delegateEvent(node, eventName, target, event)
delegateEvent(d, n, target, nested) ==
    LET d1 == IF target.once THEN [d EXCEPT !.props[n] = NoBinding] ELSE d
    IN  IF target.component \notin componentLookup THEN d1
        ELSE Invoked(d1, n, target, nested)

\* a faulty variant: the walk goes on after stopPropagation
listener_NoBreak(d, curNode, nested) ==
    IF curNode > MaxDepth THEN d
    ELSE IF ~d.props[curNode].bound
    THEN listener_NoBreak(d, curNode + 1, nested)
    ELSE listener_NoBreak(
             delegateEvent(d, curNode, d.props[curNode], nested),
             curNode + 1, nested)

\* the listener that addDelegatedEventHandlerToDoc attaches: the loop from
\* curNode up
listener(d, curNode, nested) ==
    IF curNode > MaxDepth THEN d
    ELSE IF ~d.props[curNode].bound THEN listener(d, curNode + 1, nested)
    ELSE LET e == delegateEvent(d, curNode, d.props[curNode], nested)
         IN  IF e.stopped THEN e ELSE listener(e, curNode + 1, nested)

\* a render puts the binding b on an element
BindOf(b) ==
    /\ dispatch.events = 0
    /\ \E n \in 1..MaxDepth :
           /\ ~dispatch.props[n].bound
           /\ dispatch' = [dispatch EXCEPT !.props[n] = b, !.bindings[n] = b]
    /\ UNCHANGED <<loaderVars, resolution, schedulerVars, morph, keySequence>>

Bind == \E b \in Bindings : BindOf(b)

BindAgain == BindOf(AgainBinding)

\* the browser delivers an event whose target is an element
DispatchEvent ==
    /\ dispatch.events < MaxEvents
    /\ \E target \in 1..MaxDepth :
           dispatch' = listener([dispatch EXCEPT !.before = dispatch.props,
                                                 !.target = target,
                                                 !.invoked = <<>>,
                                                 !.stopped = FALSE,
                                                 !.events = @ + 1],
                                target, FALSE)
    /\ UNCHANGED <<loaderVars, resolution, schedulerVars, morph, keySequence>>

NextDispatch ==
    \/ Bind
    \/ DispatchEvent

SpecDispatch == Init /\ [][NextDispatch]_vars

\* the dispatches when methods may dispatch events themselves
NextOnce ==
    \/ Bind
    \/ BindAgain
    \/ DispatchEvent

SpecOnce == Init /\ [][NextOnce]_vars

\* the elements from the target up whose binding, at the start of the
\* dispatch, was to a method of a registered component
Handlers ==
    {n \in dispatch.target..MaxDepth :
         /\ dispatch.before[n].bound
         /\ dispatch.before[n].component \in componentLookup}

\* the innermost of them whose method stops the propagation, MaxDepth if
\* none does
LastHandler ==
    LET stoppers == {n \in Handlers : dispatch.before[n].stops}
    IN  IF stoppers = {} THEN MaxDepth
        ELSE CHOOSE n \in stoppers : \A m \in stoppers : n <= m

\* C30: a dispatch invokes the handlers bound on the target and on its
\* ancestors in that order, from the target up; once a handler has called
\* stopPropagation no handler of a further ancestor is invoked.
C30_WalkStopsAtStopPropagation ==
    dispatch.events > 0 =>
        dispatch.invoked =
            SelectSeq([n \in 1..MaxDepth |-> n],
                      LAMBDA n : n \in Handlers /\ n <= LastHandler)

\* the handler of the middle element stopped the event: the handler of the
\* target and its own ran, the handler of the outer element did not
C30_Witness ==
    /\ dispatch.events > 0
    /\ dispatch.target = 1
    /\ dispatch.invoked = <<1, 2>>
    /\ dispatch.before[2].stops
    /\ 3 \in Handlers

\* C40: the keys one key sequence returns are pairwise distinct, whatever
\* key names are asked for, names that end in "_" and a number included.
C40_ReturnedKeysDistinct ==
    \A i, j \in 1..Len(keySequence.returned) :
        i # j => keySequence.returned[i] # keySequence.returned[j]

\* C39: with keyed elements of one tag and distinct keys, each key that is
\* in the previous live list and in the new virtual list is represented
\* after the reconcile by the live node it had before; a node marked for
\* detachment and matched by its key later in the pass is not removed.
C39_SharedKeysKeepTheirNode ==
    KeyedRerender =>
        \A i \in 1..Len(morph.before) :
            BeforeKeys[i] \in Elements(ToKeys) =>
                /\ morph.before[i] \notin Elements(morph.removed)
                /\ \E j \in 1..Len(morph.dom) :
                       /\ morph.dom[j] = morph.before[i]
                       /\ ToKeys[j] = BeforeKeys[i]

\* a node was marked for detachment, matched by its key later in the pass,
\* and is among the live children
C39_Witness ==
    /\ KeyedRerender
    /\ \E n \in Elements(morph.detached) :
           /\ morph.nodes[n].key \in Elements(ToKeys)
           /\ n \in Elements(morph.dom)
           /\ n \in Elements(morph.before)

\* C31: the method of a binding for once is invoked at most once on its
\* element, whatever events are dispatched, those a method dispatches
\* before it returns included.
C31_OnceInvokedAtMostOnce ==
    \A n \in 1..MaxDepth :
        dispatch.bindings[n].once => dispatch.calls[n] <= 1

\* a method bound for once dispatched an event on its own element, and was
\* the target of a second event afterwards
C31_Witness ==
    /\ dispatch.events = 2
    /\ dispatch.target = 1
    /\ dispatch.bindings[1] = AgainBinding
    /\ dispatch.nested = 1
    /\ dispatch.calls[1] = 1

(***************************************************************************)
(* The per-directory require cache (SpecCache)                             *)
(***************************************************************************)

CacheDefs == {<<PathA, "function", <<>>>>, <<PathB, "function", <<>>>>}

CacheDefine == Define(CacheDefs)
CacheRequire == RequireOf({PathA})
CacheInstanceRequire == InstanceRequireOf({<<".", "/", "b">>})
CacheRemap == RemapOf({<<PathB, PathA>>})

NextCache ==
    \/ CacheDefine
    \/ CacheRequire
    \/ CacheInstanceRequire
    \/ CacheRemap
    \/ ClearCache
    \/ Return
    \/ Throw
    \/ Catch

\* /p/a requires ./b while /p/b is remapped or removed from require.cache
SpecCache == Init /\ [][NextCache]_vars

\* what requireModule(target, dirname) gives the running factory in state s
Uncached(s, target) ==
    requireModule(s, target, DirnameOf(s.modules[CurrentModule(s)].id),
                  KInstanceRequire(target))

\* C32: the require of a factory returns the module that requireModule
\* (target, dirname), called at that moment without the per-directory
\* cache, would return.
C32_CacheIsOptimization ==
    [][ (last'.op = "instanceRequire" /\ last'.out = "ok")
            => /\ Uncached(S, last'.arg).out = "module"
               /\ Uncached(S, last'.arg).m = last'.m ]_vars

(***************************************************************************)
(* Entry points and pending jobs, over whole histories (SpecRun)           *)
(***************************************************************************)

DrainFrames == {i \in 1..Len(stack) : stack[i].kind = "drain"}

\* the tickets of the entries a drain in progress has taken and not yet run
InDrain ==
    UNION {{stack[i].queue[j].ticket : j \in (stack[i].i + 1)..Len(stack[i].queue)}
              : i \in DrainFrames}

\* the tickets of the entries in the run queue
InQueue == {runQueue[i].ticket : i \in 1..Len(runQueue)}

\* C36: no entry point passed to run is executed twice, every one of them
\* has been executed or is still held (in the run queue, or in the queue a
\* drain in progress took), and the run queue is empty whenever the ready
\* flag is true, the pending counter is zero and no drain is in progress.
C36_NoEntryLostOrDuplicated ==
    /\ \A i, j \in 1..Len(executed) : i # j => executed[i] # executed[j]
    /\ Issued(S) \subseteq Range(executed) \cup InQueue \cup InDrain
    /\ (_ready /\ pendingCount = 0 /\ DrainFrames = {}) => runQueue = <<>>

\* the handles pending() returned whose done() has not been called
Outstanding == {j \in 1..Len(jobs) : ~jobs[j]}

\* C37: the pending counter is never negative and is the number of pending
\* jobs begun and not yet completed, also when done() is called more than
\* once on one handle.
C37_CounterIsOutstandingJobs ==
    /\ pendingCount >= 0
    /\ pendingCount = Cardinality(Outstanding)

(***************************************************************************)
(* The instance cache after an error (Spec)                                *)
(***************************************************************************)

\* the factory of the Module object m is on the stack
Executing(m) ==
    \E i \in 1..Len(stack) : stack[i].kind = "factory" /\ stack[i].m = m

\* C38: every instance in the instance cache has loaded = true or has its
\* factory executing, also after a factory raised an error; no require
\* returns the exports of an instance whose factory did not complete.
C38_CachedIsLoadedOrExecuting ==
    /\ \A path \in DOMAIN instanceCache :
          modules[instanceCache[path]].loaded \/ Executing(instanceCache[path])
    /\ RequireReturned => modules[last.m].loaded \/ Executing(last.m)

(***************************************************************************)
(* The update-queued flag and the queues (SpecUpdate)                      *)
(***************************************************************************)

\* component c is an entry of the unbatched queue or of the pending list of
\* a batch on the stack
InSomeQueue(c) ==
    \/ c \in Elements(unbatchedQueue)
    \/ \E i \in 1..Len(batchStack) : c \in Elements(batchStack[i].aB_)

\* by this step the loop of updateComponents that is on top afterwards has
\* got back the update call of its entry c
Processed(c) ==
    /\ Len(frames') > 0
    /\ Len(frames) >= Len(frames')
    /\ LET k == Len(frames')
       IN  /\ frames'[k].kind \in {"flush", "batchEnd"}
           /\ frames[k].kind = frames'[k].kind
           /\ frames'[k].i = frames[k].i + 1
           /\ LoopQueue(U')[frames'[k].i] = c

\* C34: a component that is not destroyed and has its update-queued flag
\* set is an entry of the unbatched queue or of the pending list of an
\* active batch; when a flush or a batch end has processed a component, its
\* flag is clear.
C34_FlagSetMeansQueued ==
    /\ [](\A c \in Components :
            (components[c].U_ /\ ~components[c].T_) => InSomeQueue(c))
    /\ [][\A c \in Components :
            (Processed(c) /\ ~components[c].T_) => ~components'[c].U_]_vars

(***************************************************************************)
(* A changed component is updated in the end (SpecLive)                    *)
(***************************************************************************)

\* checkInputChanged(component, oldInput, newInput), for inputs of one key
checkInputChanged(oldInput, newInput) == oldInput # newInput

\* component.input = newInput (_g_ with no onInput): the dirty flag is
\* assigned the result of the comparison with the input held so far
_g_(u, c, newInput) ==
    LET changed == checkInputChanged(u.components[c].Q_, newInput)
        marked == [u EXCEPT !.components[c].V_ = changed]
        queued == IF changed THEN _e_(marked, c) ELSE marked
    IN  [queued EXCEPT !.components[c].Q_ = newInput]

\* component.input = {value}
SetInput ==
    \E c \in Components, value \in Values :
        /\ UserCode(c)
        /\ CommitScheduler(Called(_g_(U, c, value)))

NextLive ==
    \/ SetState
    \/ SetInput
    \/ Tick
    \/ UpdateNext
    \/ LoopEnd
    \/ HandlersReturn
    \/ HandlersThrow
    \/ RenderReturns
    \/ RenderThrows

\* the timer of nextTick fires, and code that is running goes on until it
\* returns or throws
SpecLive ==
    /\ Init /\ [][NextLive]_vars
    /\ WF_vars(Tick)
    /\ WF_vars(UpdateNext)
    /\ WF_vars(LoopEnd)
    /\ WF_vars(HandlersReturn \/ HandlersThrow)
    /\ WF_vars(RenderReturns \/ RenderThrows)

\* the state or the input of c is not what its DOM was last given
Stale(c) ==
    /\ ~components[c].T_
    /\ \/ components[c].dom # components[c].J_._u_
       \/ components[c].shown # components[c].Q_

\* C33: a component that is not destroyed and whose state or input differs
\* from what was last rendered is updated in the end: its update handlers
\* or its re-render bring the DOM up to its state and input.
C33_ChangedIsUpdated ==
    \A c \in Components : Stale(c) ~> ~Stale(c)

(***************************************************************************)
(* destroy() and the update queues (SpecGone)                              *)
(***************************************************************************)

\* component.___() with "destroy" listeners that call nothing: the event is
\* emitted, the flag is set and the subscriptions are removed
Gone(u, c) ==
    Destroyed([u EXCEPT !.log.events[c] = Append(@, "destroy")], c)

\* component.destroy() with "destroy" listeners that call nothing: ___(),
\* then destroyNodeRecursive destroys the components rendered inside the
\* nodes of c, the nodes are removed and c leaves componentLookup
destroy(u, c) ==
    LET RECURSIVE Nested(_, _)
        Nested(v, i) ==
            IF i > Len(ChildrenOf(c)) THEN v
            ELSE LET child == ChildrenOf(c)[i]
                     w == IF ~v.components[child].attached
                             \/ ~v.components[child].byNode
                          THEN v
                          ELSE [(IF v.components[child].T_ THEN v
                                 ELSE Gone(v, child))
                                   EXCEPT !.componentLookup = @ \ {child}]
                 IN  Nested(w, i + 1)
    IN  IF u.components[c].T_
        THEN u
        ELSE [Nested(Gone(u, c), 1) EXCEPT !.components[c].attached = FALSE,
                                          !.componentLookup = @ \ {c}]

\* component.destroy(), called by an event handler, by an update handler of
\* any component or by the renderer of another component
DestroyCall ==
    \E c \in Components :
        /\ updateLog.userCalls < MaxUserCalls
        /\ \/ frames = <<>>
           \/ /\ frames # <<>>
              /\ \/ TopFrame(U).kind = "handlers"
                 \/ TopFrame(U).kind = "render" /\ TopFrame(U).component # c
        /\ CommitScheduler(Called(destroy(U, c)))

NextGone ==
    \/ SetState
    \/ DestroyCall
    \/ Tick
    \/ UpdateNext
    \/ LoopEnd
    \/ HandlersReturn
    \/ RenderReturns

\* components are changed and destroyed by event handlers and by the code
\* of the updates; no update raises an error
SpecGone == Init /\ [][NextGone]_vars

\* C35: once a component has emitted "destroy", no update of it runs its
\* handlers or its renderer or emits "update" (an entry of a queue that is
\* a destroyed component is skipped), and it is not in componentLookup.
C35_NothingAfterDestroy ==
    /\ [][\A c \in Components :
            components[c].T_
               => /\ ~Updates(c)
                  /\ updateLog'.events[c] = updateLog.events[c]
                  /\ (Processed(c) => UNCHANGED <<components, componentLookup>>)
         ]_vars
    /\ [](\A c \in Components : components[c].T_ => c \notin componentLookup)

====
